---- MODULE Spec2Model ----
(***************************************************************************)
(* Dispatch-and-caching core of thunder/common.py: the fingerprint engine  *)
(* (_make_subkey_for, _make_cache_key), the cache (cache_put, cache_get),  *)
(* the trace builder (trace._trace) with its context variables, and the    *)
(* dispatcher (_create_callable._fn).                                      *)
(***************************************************************************)
EXTENDS Integers, Sequences, FiniteSets, TLC

(***************************************************************************)
(* Bounds of the model.                                                    *)
(***************************************************************************)
\* deepest nesting of a value inside sequences in the fingerprint inputs
MaxNest == 2
\* what user code does in one behaviour: calls of the compiled entity, direct
\* calls of trace(), and exceptions raised
MaxEvents == 3
\* the most extra values the compiled callable of a module returns
MaxExtras == 3

\* the value of a timestamp that has not been set
Unset == -1

(***************************************************************************)
(* Python values.  Every value is a pair <<type name, payload>>, so that   *)
(* two values of different types compare unequal, as in Python.            *)
(***************************************************************************)
Tensor(shape, device, dtype, requires_grad, data) ==
    <<"Tensor", [shape |-> shape, device |-> device, dtype |-> dtype,
                 requires_grad |-> requires_grad, data |-> data]>>
NdArray(data) == <<"ndarray", data>>
PyStr(s) == <<"str", s>>
PyInt(v) == <<"int", v>>
PyFloat(v) == <<"float", v>>
PyBool(b) == <<"bool", b>>
PyNone == <<"NoneType", "None">>
PyList(items) == <<"list", items>>
PyTuple(items) == <<"tuple", items>>
PyDict(items) == <<"dict", items>>
\* an instance of a class that defines __eq__ without __hash__
Unhashable(id) == <<"unhashable", id>>
\* an instance of a class that defines __hash__ (so isinstance(x, Hashable)
\* holds) whose __hash__ raises: a frozen dataclass with a list field
BadHash(id) == <<"badhash", id>>
\* a class object (torch.Tensor, str, int, _key_value_separator, ...)
PyClass(name) == <<"type", name>>
\* torch.Size, torch.device and torch.dtype objects held by a tensor
Size(dims) == <<"Size", dims>>
Device(d) == <<"device", d>>
Dtype(d) == <<"dtype", d>>

TypeOf(x) == x[1]
Payload(x) == x[2]

\* bool(x) for the values the fingerprint code tests
Truthy(x) == IF TypeOf(x) = "bool" THEN Payload(x) ELSE FALSE
\* Python's `a and b`: the first operand when it is falsy, else the second
PyAnd(a, b) == IF Truthy(a) THEN b ELSE a

\* isinstance(x, Sequence); str is one too, but is tested before it
IsSequence(x) == TypeOf(x) \in {"list", "tuple", "str"}
is_collection(x) == TypeOf(x) \in {"list", "tuple", "dict"}
\* isinstance(x, Hashable)
IsHashable(x) == TypeOf(x) \notin {"list", "dict", "unhashable", "ndarray"}

(***************************************************************************)
(* _make_subkey_for: the pair (is_hashable, subkey).                       *)
(***************************************************************************)
RECURSIVE _make_subkey_for(_)
RECURSIVE SubkeyLoop(_, _, _)

\* a tensor sub-key without the dtype
TensorSubkeyNoDtype(x) ==
    PyTuple(<<PyClass("Tensor"), Size(Payload(x).shape), Device(Payload(x).device),
              PyBool(Payload(x).requires_grad)>>)

\* a tensor sub-key that takes the contents in
TensorSubkeyWithData(x) ==
    PyTuple(<<PyClass("Tensor"), Size(Payload(x).shape), Device(Payload(x).device),
              Dtype(Payload(x).dtype), PyBool(Payload(x).requires_grad),
              PyInt(Payload(x).data)>>)

\* line 338: the sub-key of a tensor
TensorSubkey(x) ==
    PyTuple(<<PyClass("Tensor"), Size(Payload(x).shape), Device(Payload(x).device),
              Dtype(Payload(x).dtype), PyBool(Payload(x).requires_grad)>>)

\* the `for idx, v in enumerate(x)` loop of the Sequence branch
SubkeyLoop(items, idx, key) ==
    IF idx > Len(items)
    THEN <<PyBool(TRUE), PyTuple(key)>>
    ELSE LET r == _make_subkey_for(items[idx])
         IN  IF ~Truthy(r[1])
             THEN <<PyNone, PyBool(FALSE)>>
             ELSE SubkeyLoop(items, idx + 1, Append(key, r[2]))

_make_subkey_for(x) ==
    IF TypeOf(x) = "Tensor"
    THEN <<PyBool(TRUE), TensorSubkey(x)>>
    ELSE IF TypeOf(x) = "ndarray"
    THEN <<PyBool(FALSE), PyNone>>
    ELSE IF TypeOf(x) = "str"
    THEN <<PyBool(TRUE), PyTuple(<<PyClass("str"), x>>)>>
    ELSE IF IsSequence(x)
    THEN SubkeyLoop(Payload(x), 1, <<>>)
    ELSE IF is_collection(x)
    THEN <<PyBool(FALSE), PyNone>>
    ELSE IF IsHashable(x)
    THEN <<PyBool(TRUE), PyTuple(<<PyClass(TypeOf(x)), x>>)>>
    ELSE <<PyBool(FALSE), PyNone>>

\* the marker class that separates a keyword from its value in a key
_key_value_separator == PyClass("_key_value_separator")

\* a helper that looks at the keyword only
kwarg_helper_key_only(key, value) ==
    LET k == _make_subkey_for(key)
        v == _make_subkey_for(value)
    IN  <<k[1], PyTuple(<<k[2], _key_value_separator, v[2]>>)>>

kwarg_helper(key, value) ==
    LET k == _make_subkey_for(key)
        v == _make_subkey_for(value)
    IN  <<PyAnd(k[1], v[1]), PyTuple(<<k[2], _key_value_separator, v[2]>>)>>

RECURSIVE ArgsLoop(_, _, _)
ArgsLoop(args, idx, key) ==
    IF idx > Len(args)
    THEN <<TRUE, key>>
    ELSE LET r == _make_subkey_for(args[idx])
         IN  IF ~Truthy(r[1]) THEN <<FALSE, key>>
             ELSE ArgsLoop(args, idx + 1, Append(key, r[2]))

RECURSIVE KwargsLoop(_, _, _)
KwargsLoop(kwargs, idx, key) ==
    IF idx > Len(kwargs)
    THEN <<TRUE, key>>
    ELSE LET r == kwarg_helper(PyStr(kwargs[idx][1]), kwargs[idx][2])
         IN  IF ~Truthy(r[1]) THEN <<FALSE, key>>
             ELSE KwargsLoop(kwargs, idx + 1, Append(key, r[2]))

\* kwargs is the sequence of <<name, value>> pairs in the dict's iteration order
_make_cache_key(args, kwargs) ==
    LET a == ArgsLoop(args, 1, <<>>)
    IN  IF ~a[1] THEN PyNone
        ELSE LET k == KwargsLoop(kwargs, 1, a[2])
             IN  IF ~k[1] THEN PyNone ELSE PyTuple(k[2])

(***************************************************************************)
(* cache_put and cache_get.  A cache is a function from keys to pairs      *)
(* <<fn, traces>>.                                                         *)
(***************************************************************************)
\* hash(key) raises: cache.get(key, ...) and cache[key] = ... hash the key,
\* a tuple's hash hashes its items, and a sub-key (type(x), x) holds x itself
RECURSIVE HashRaises(_)
HashRaises(key) ==
    IF TypeOf(key) = "badhash" THEN TRUE
    ELSE IF TypeOf(key) = "tuple"
    THEN \E i \in 1..Len(Payload(key)) : HashRaises(Payload(key)[i])
    ELSE FALSE

DictSet(cache, key, value) ==
    [k \in DOMAIN cache \cup {key} |-> IF k = key THEN value ELSE cache[k]]

\* a cache that takes any key, None too
cache_put_any_key(cache, fn, traces, args, kwargs) ==
    <<TRUE, DictSet(cache, _make_cache_key(args, kwargs), <<fn, traces>>)>>

\* a cache that keeps one entry: the latest
cache_put_evicting(cache, fn, traces, args, kwargs) ==
    LET key == _make_cache_key(args, kwargs)
    IN  IF key = PyNone
        THEN <<FALSE, cache>>
        ELSE <<TRUE, DictSet(<<>>, key, <<fn, traces>>)>>

\* the pair <<returned flag, cache afterwards>>
cache_put(cache, fn, traces, args, kwargs) ==
    LET key == _make_cache_key(args, kwargs)
    IN  IF key = PyNone
        THEN <<FALSE, cache>>
        ELSE <<TRUE, DictSet(cache, key, <<fn, traces>>)>>

cache_get(cache, args, kwargs) ==
    LET key == _make_cache_key(args, kwargs)
    IN  IF key \in DOMAIN cache THEN cache[key] ELSE <<PyNone, PyNone>>

(***************************************************************************)
(* The arguments the compiled entity is called with.  The first positional *)
(* argument is the slot of an implicit constant parameter when             *)
(* cd.num_constant_args is 1.                                              *)
(***************************************************************************)
W4 == Tensor(<<4>>, "cpu", "float32", FALSE, 0)
W44 == Tensor(<<4, 4>>, "cpu", "float32", FALSE, 0)
X4 == Tensor(<<4>>, "cpu", "float32", FALSE, 0)
X4other == Tensor(<<4>>, "cpu", "float32", FALSE, 1)
X44 == Tensor(<<4, 4>>, "cpu", "float32", FALSE, 0)
W4grad == Tensor(<<4>>, "cpu", "float32", TRUE, 0)

\* the i-th extra value the compiled callable of a module returns: the new
\* value of a parameter or a buffer
Extra(i) == IF i = 1 THEN W4grad ELSE IF i = 2 THEN X4other ELSE W44

\* the values an implicit parameter of the module takes
SlotValues == <<W4, W44, Extra(1), Extra(2)>>

\* the explicit arguments the module is called with
ModuleExplicit ==
    << [args |-> <<X4>>, kwargs |-> <<>>],
       [args |-> <<BadHash(0)>>, kwargs |-> <<>>] >>

\* line 310: all_args = (*self._additional_param_values, *args), for every
\* value of the two implicit parameters and every explicit argument set
ModuleCalls ==
    LET nv == Len(SlotValues)
        ne == Len(ModuleExplicit)
    IN  [i \in 1..(nv * nv * ne) |->
            LET e == ((i - 1) % ne) + 1
                v2 == (((i - 1) \div ne) % nv) + 1
                v1 == ((i - 1) \div (ne * nv)) + 1
            IN  [args |-> <<SlotValues[v1], SlotValues[v2]>> \o ModuleExplicit[e].args,
                 kwargs |-> ModuleExplicit[e].kwargs]]

\* the argument sets _fn is called with: by user code (the first nine), or
\* by the adapter of a module with two implicit parameters
CallArgs ==
    << [args |-> <<W4, X4>>, kwargs |-> <<>>],
       [args |-> <<W4, X4other>>, kwargs |-> <<>>],
       [args |-> <<W4>>, kwargs |-> << <<"x", X44>> >>],
       [args |-> <<W44>>, kwargs |-> << <<"x", X44>> >>],
       [args |-> <<W4, NdArray(0)>>, kwargs |-> <<>>],
       [args |-> <<W4grad, X4>>, kwargs |-> <<>>],
       [args |-> <<W4, BadHash(0)>>, kwargs |-> <<>>],
       [args |-> <<W44, NdArray(0)>>, kwargs |-> <<>>],
       [args |-> <<W4grad, NdArray(0)>>, kwargs |-> <<>>] >>
    \o ModuleCalls

\* the argument sets with which user code calls _fn
DirectCalls == 1..9

\* args[n:]
Drop(s, n) == SubSeq(s, n + 1, Len(s))

\* any(isinstance(arg, tensor_cls) and arg.requires_grad for arg in flat_args)
RECURSIVE AnyRequiresGrad(_)
AnyRequiresGrad(x) ==
    IF TypeOf(x) = "Tensor" THEN Payload(x).requires_grad
    ELSE IF TypeOf(x) \in {"list", "tuple"}
    THEN \E i \in 1..Len(Payload(x)) : AnyRequiresGrad(Payload(x)[i])
    ELSE FALSE

requires_grad(call) ==
    \/ \E i \in 1..Len(call.args) : AnyRequiresGrad(call.args[i])
    \/ \E i \in 1..Len(call.kwargs) : AnyRequiresGrad(call.kwargs[i][2])

(***************************************************************************)
(* State.                                                                  *)
(***************************************************************************)
Threads == {"t1", "t2"}

VARIABLES
    cd,          \* the CompileData of the compiled entity
    transforms,  \* the trace transforms registered with _create_callable
    post_optimization_transforms,  \* and those applied to the lowered trace
    cs,          \* the CompileStats of the compiled entity
    stack,       \* per thread: the frames of _fn and _trace being executed
    exc,         \* per thread: an exception is propagating
    ret,         \* per thread: the value the last _trace call returned
    tracectx,    \* per thread: the context variable read by get_tracectx()
    langctx,     \* per thread: the context variable read by get_langctx()
    ntraces,     \* TraceCtx objects constructed for the dispatcher so far
    events,      \* calls made and exceptions raised by user code so far
    now,         \* the clock read by time.time_ns()
    stored,      \* history: per fingerprint (None too), the executable of the
                 \*   last DYNAMIC_STRIDES call that ended well on the miss
                 \*   path and was not inlined
    first,       \* history: the executable of the first call that ended well
                 \*   and was not inlined
    anyok,       \* history: some call has ended well
    last,        \* history: the call of the compiled entity that ended last
    tom,         \* the ThunderOptimizedModule that wraps _fn, or None
    model,       \* the attributes of the torch.nn.Module it owns (self._model)
    heap,        \* the list objects cd and the adapter refer to
    lastm,       \* history: the call of the adapter that ended last
    ka, kb,      \* fingerprint harness: two argument sets
    ra, rb,      \* fingerprint harness: their fingerprints
    rc,          \* fingerprint harness: what the cache did with them
    unpack,       \* the call of _unpack_inputs under way: its locals and its trace
    seal,  \* the call of _trace being sealed: the result of fn and the trace's operations
    mat,  \* the call of MaterializationTransform.transform_module: the module and the loop
    conc  \* the calls of _fn two threads make at once: what each has read of cs.calls

vars == <<cd, transforms, post_optimization_transforms, cs, stack, exc, ret, tracectx, langctx, ntraces,
          events, now, stored, first, anyok, last, tom, model, heap, lastm,
          ka, kb, ra, rb, rc, unpack, seal, mat, conc>>

harness == <<ka, kb, ra, rb, rc, unpack, seal, mat, conc>>
pipeline == <<transforms, post_optimization_transforms>>
history == <<stored, first, anyok, last>>
adapter == <<tom, model, heap, lastm>>

\* the executable built by call number n of the compiled entity, whose
\* arguments were CallArgs[a]
Function(n, a) == <<"function", [n |-> n, a |-> a]>>
\* a TraceCtx: the one constructed for call number n of the compiled entity
\* (by = "call") or by a direct call of trace() at stack depth n (by = "user"),
\* or a trace a later stage made of it
TraceObj(by, n, stage) == <<"TraceCtx", [by |-> by, n |-> n, stage |-> stage]>>
\* the stage of a trace that trace() returned: no pass has been applied to it
Acquired == <<>>
Token(old) == <<"Token", old>>
Result == <<"result", 0>>

\* CompileStats.__init__
CompileStats ==
    [last_executed |-> PyNone, last_traces |-> PyNone,
     last_trace_host_start |-> Unset, last_trace_host_stop |-> Unset,
     last_trace_cache_start |-> Unset, last_trace_cache_stop |-> Unset,
     last_trace_tracing_start |-> Unset, last_trace_tracing_stop |-> Unset,
     last_trace_host_execution_start |-> Unset, last_trace_host_execution_stop |-> Unset,
     cache |-> <<>>, calls |-> 0, cache_hits |-> 0, cache_misses |-> 0]

\* the language context that is active when nothing has set one
AmbientLang == "torch"

\* the fingerprint harness at rest
NoHarness == [args |-> <<>>, kwargs |-> <<>>]
NoResult == <<"none", PyNone>>

\* what a call of the compiled entity finds when it starts
Snapshot ==
    [cache |-> cs.cache, last_executed |-> cs.last_executed,
     last_traces |-> cs.last_traces, cache_hits |-> cs.cache_hits,
     cache_misses |-> cs.cache_misses, calls |-> cs.calls, ntraces |-> ntraces]

NoCall ==
    [a |-> 0, n |-> 0, active |-> FALSE, path |-> "none", ok |-> FALSE, c |-> PyNone,
     put |-> "none", calls |-> 0, hits |-> 0, misses |-> 0, traced |-> 0,
     cache_same |-> TRUE, executed_same |-> TRUE, traces_same |-> TRUE,
     tracing |-> <<Unset, Unset>>, prior |-> PyNone, pre_executed |-> PyNone,
     anyok |-> FALSE, ran |-> NoHarness]

\* no call of the adapter has ended
NoModuleCall ==
    [n |-> 0, ok |-> FALSE, a |-> 0, returned |-> -1, at |-> "none",
     pre_values |-> <<>>, pre_model |-> <<>>]

\* no call of _trace is under way outside the dispatcher
NoSeal ==
    [pc |-> "none", rename_proxies |-> FALSE, include_return_statement |-> FALSE,
     arg |-> PyNone, proxyarg |-> PyNone, st |-> [names |-> {}, made |-> 0],
     _any_future_tensors |-> FALSE, futures |-> {}, fn_result |-> PyNone,
     ops |-> <<>>, output |-> PyNone]

\* no call of transform_module is under way
NoMaterialization ==
    [pc |-> "none", device |-> "none", heap |-> <<>>, original |-> <<>>,
     parameters |-> <<>>, buffers |-> <<>>, shared_names |-> <<>>, todo |-> <<>>,
     _overrides_parameters |-> <<>>, inits |-> 0, init_saw |-> <<>>]

\* no thread is between reading cs.calls and writing it
NotLoaded == [a |-> 0, calls |-> Unset]
NoThreads ==
    [loaded |-> [t \in Threads |-> NotLoaded], overlapped |-> FALSE, increments |-> 0]

\* the compiled entity is called as _fn: no adapter wraps it
NoAdapter ==
    /\ tom = PyNone
    /\ model = <<>>
    /\ heap = <<>>
    /\ lastm = NoModuleCall

\* no call of _unpack_inputs is under way
NoUnpack ==
    [pc |-> "none", rename_proxies |-> FALSE,
     si |-> [args |-> <<>>, varargs |-> PyNone, kwargs |-> <<>>],
     st |-> [names |-> {}, made |-> 0], i |-> 0, cq |-> <<>>, ops |-> <<>>,
     proxyargs |-> <<>>, proxykwargs |-> <<>>, args |-> PyNone, kwargs |-> PyNone]

InitMain ==
    /\ cs = CompileStats
    /\ stack = [t \in Threads |-> <<>>]
    /\ exc = [t \in Threads |-> FALSE]
    /\ ret = [t \in Threads |-> PyNone]
    /\ tracectx = [t \in Threads |-> PyNone]
    /\ langctx = [t \in Threads |-> AmbientLang]
    /\ ntraces = 0
    /\ events = 0
    /\ now = 0
    /\ stored = <<>>
    /\ first = PyNone
    /\ anyok = FALSE
    /\ last = NoCall

\* The compiled entity is any of: each cache mode, a function (no implicit
\* parameters) or a module with one, autograd support on or off, no trace
\* transforms or two.  Its language context is "numpy", which differs from
\* the ambient one.
Init ==
    /\ cd \in [cache_mode : {"ALWAYS_TRACE", "FIXED", "DYNAMIC_STRIDES"},
               num_constant_args : {0, 1},
               disable_torch_autograd_support : BOOLEAN,
               langctx : {"numpy"}]
    /\ \E p \in {<< <<>>, <<>> >>,
                 << <<"transform1", "transform2">>, <<"post1", "post2">> >>} :
           /\ transforms = p[1]
           /\ post_optimization_transforms = p[2]
    /\ InitMain
    /\ NoAdapter
    /\ ka = NoHarness /\ kb = NoHarness
    /\ ra = NoResult /\ rb = NoResult /\ rc = NoResult
    /\ unpack = NoUnpack
    /\ seal = NoSeal
    /\ mat = NoMaterialization
    /\ conc = NoThreads

(***************************************************************************)
(* Frames.  Every frame has the same fields; a field a kind of frame does  *)
(* not use keeps its default.                                              *)
(***************************************************************************)
Top(t) == stack[t][Len(stack[t])]
Pop(t) == SubSeq(stack[t], 1, Len(stack[t]) - 1)

\* time.time_ns()
time_ns == now

\* the fingerprint the dispatcher computes for a call (lines 592, 631, 690)
Fingerprint(call) == _make_cache_key(Drop(call.args, cd.num_constant_args), call.kwargs)

\* the executable `stored` holds for the fingerprint of CallArgs[a], or None
Prior(a) ==
    IF a = 0 THEN PyNone
    ELSE LET key == Fingerprint(CallArgs[a])
         IN  IF key \in DOMAIN stored THEN stored[key] ELSE PyNone

NoSnapshot ==
    [cache |-> <<>>, last_executed |-> PyNone, last_traces |-> PyNone, cache_hits |-> 0,
     cache_misses |-> 0, calls |-> 0, ntraces |-> 0]

\* the frame of a call of _fn with the arguments CallArgs[a]
FnFrame(t, a) ==
    [kind |-> "_fn", pc |-> "lookup", a |-> a, n |-> cs.calls + 1,
     langctx_tok |-> PyNone, tracectx_tok |-> PyNone, trace |-> PyNone,
     c |-> PyNone, path |-> "none", calls |-> 0, hits |-> 0, misses |-> 0,
     active |-> tracectx[t] # PyNone, pre |-> Snapshot,
     prior |-> Prior(a), anyok |-> anyok]

\* the frame of a call of _trace
TraceFrame ==
    [kind |-> "_trace", pc |-> "call_fn", a |-> 0, n |-> 0,
     langctx_tok |-> PyNone, tracectx_tok |-> PyNone, trace |-> PyNone,
     c |-> PyNone, path |-> "none", calls |-> 0, hits |-> 0, misses |-> 0,
     active |-> FALSE, pre |-> NoSnapshot,
     prior |-> PyNone, anyok |-> FALSE,
     inline_trace |-> FALSE, fn_args |-> "none"]

\* the code that runs at the top of thread t's stack is user code: the caller
\* of the compiled entity, or the callable being traced
InUserCode(t) ==
    /\ ~exc[t]
    /\ \/ stack[t] = <<>>
       \/ /\ stack[t] # <<>>
          /\ Top(t).kind = "_trace"
          /\ Top(t).pc = "call_fn"

(***************************************************************************)
(* trace()._trace                                                          *)
(***************************************************************************)
\* a _trace that never inlines: it constructs a TraceCtx every time
TraceEnterAlwaysNew(t, by, n, cd_langctx, inline_trace) ==
    LET langctx_ == IF cd_langctx # "None" THEN cd_langctx ELSE langctx[t]
        trace == TraceObj(by, n, Acquired)
    IN  [frame |-> [TraceFrame EXCEPT !.langctx_tok = Token(langctx[t]),
                                      !.inline_trace = inline_trace,
                                      !.fn_args = "proxyargs",
                                      !.trace = trace,
                                      !.tracectx_tok = Token(tracectx[t])],
         langctx |-> langctx_, tracectx |-> trace, created |-> 1]

\* lines 449-480: the frame of _trace when fn starts to run, and the context
\* variables then.  fn_args is what fn is called with: the arguments _trace
\* got (line 459) or what _unpack_inputs made of them (line 480)
TraceEnter(t, by, n, cd_langctx, inline_trace) ==
    LET langctx_ == IF cd_langctx # "None" THEN cd_langctx ELSE langctx[t]
        current_trace == tracectx[t]
        f == [TraceFrame EXCEPT !.langctx_tok = Token(langctx[t]),
                                !.inline_trace = inline_trace]
    IN  IF current_trace # PyNone /\ inline_trace
        THEN [frame |-> [f EXCEPT !.fn_args = "args"],
              langctx |-> langctx_, tracectx |-> tracectx[t], created |-> 0]
        ELSE LET trace == TraceObj(by, n, Acquired)
             IN  [frame |-> [f EXCEPT !.trace = trace, !.tracectx_tok = Token(tracectx[t]),
                                      !.fn_args = "proxyargs"],
                  langctx |-> langctx_, tracectx |-> trace, created |-> 1]

\* the finally block of _trace: the context variables after it
reset_langctx(t, f) == [langctx EXCEPT ![t] = Payload(f.langctx_tok)]
\* a finally block that leaves the active trace as it is
reset_tracectx_skipped(t, f) == tracectx

reset_tracectx(t, f) ==
    IF f.tracectx_tok # PyNone
    THEN [tracectx EXCEPT ![t] = Payload(f.tracectx_tok)]
    ELSE tracectx

TraceFinally(t, f) ==
    /\ langctx' = reset_langctx(t, f)
    /\ tracectx' = reset_tracectx(t, f)

\* trace(inline_trace=...)(fn, ...) called by user code; compile_data is None
CallTrace(t, inline_trace) ==
    /\ InUserCode(t)
    /\ events < MaxEvents
    /\ events' = events + 1
    /\ LET e == TraceEnter(t, "user", Len(stack[t]) + 1, "None", inline_trace)
       IN  /\ stack' = [stack EXCEPT ![t] = Append(stack[t], e.frame)]
           /\ langctx' = [langctx EXCEPT ![t] = e.langctx]
           /\ tracectx' = [tracectx EXCEPT ![t] = e.tracectx]
    /\ UNCHANGED <<cd, pipeline, adapter, cs, exc, ret, ntraces, now, history, harness>>

\* a _trace that returns the callable's result whether it inlined or not
TraceResultOfCallable(f) == Result

\* what _trace returns: line 459 returns the result of fn, line 510 the trace
TraceResult(f) == IF f.trace = PyNone THEN Result ELSE f.trace

\* fn returns: the rest of the try block, the finally block and the return
TraceReturn(t) ==
    /\ ~exc[t]
    /\ stack[t] # <<>>
    /\ Top(t).kind = "_trace"
    /\ Top(t).pc = "call_fn"
    /\ TraceFinally(t, Top(t))
    /\ ret' = [ret EXCEPT ![t] = TraceResult(Top(t))]
    /\ stack' = [stack EXCEPT ![t] = Pop(t)]
    /\ UNCHANGED <<cd, pipeline, adapter, cs, exc, ntraces, events, now,
                   history, harness>>

\* the try block raises (fn, or a step of _trace around it), or the exception
\* of a call fn made is not caught: the finally block runs and the exception
\* goes to the caller
TraceRaise(t) ==
    /\ stack[t] # <<>>
    /\ Top(t).kind = "_trace"
    /\ Top(t).pc = "call_fn"
    /\ exc[t] \/ events < MaxEvents
    /\ events' = IF exc[t] THEN events ELSE events + 1
    /\ TraceFinally(t, Top(t))
    /\ stack' = [stack EXCEPT ![t] = Pop(t)]
    /\ exc' = [exc EXCEPT ![t] = Pop(t) # <<>>]
    /\ UNCHANGED <<cd, pipeline, adapter, cs, ret, ntraces, now, history, harness>>

\* the callable being traced catches the exception of a call it made
Catch(t) ==
    /\ exc[t]
    /\ stack[t] # <<>>
    /\ Top(t).kind = "_trace"
    /\ Top(t).pc = "call_fn"
    /\ exc' = [exc EXCEPT ![t] = FALSE]
    /\ UNCHANGED <<cd, pipeline, adapter, cs, stack, ret, tracectx, langctx, ntraces,
                   events, now, history, harness>>

(***************************************************************************)
(* _create_callable._fn                                                    *)
(***************************************************************************)
\* an executable that is handed the arguments after the implicit parameters
ExecArgsAfterPrefix(call) ==
    [args |-> Drop(call.args, cd.num_constant_args), kwargs |-> call.kwargs]

\* lines 587, 601, 627 and 547: c(*args, **kwargs), what the executable is
\* invoked with
ExecArgs(call) == [args |-> call.args, kwargs |-> call.kwargs]

\* _fn returns or raises: its frame is popped and the history is updated
FnEnd(t, f, ok, put, stats) ==
    LET key == Fingerprint(CallArgs[f.a])
    IN  /\ stack' = [stack EXCEPT ![t] = Pop(t)]
        /\ exc' = [exc EXCEPT ![t] = ~ok /\ Pop(t) # <<>>]
        /\ stored' = IF /\ cd.cache_mode = "DYNAMIC_STRIDES"
                        /\ ok
                        /\ f.path \in {"traced", "autograd"}
                     THEN DictSet(stored, key, f.c)
                     ELSE stored
        /\ first' = IF first = PyNone /\ ok /\ f.path # "inlined" THEN f.c ELSE first
        /\ anyok' = (anyok \/ ok)
        /\ last' = [a |-> f.a, n |-> f.n, active |-> f.active, path |-> f.path, ok |-> ok,
                    c |-> f.c, put |-> put,
                    calls |-> f.calls, hits |-> f.hits, misses |-> f.misses,
                    traced |-> ntraces - f.pre.ntraces,
                    cache_same |-> stats.cache = f.pre.cache,
                    executed_same |-> stats.last_executed = f.pre.last_executed,
                    traces_same |-> stats.last_traces = f.pre.last_traces,
                    tracing |-> <<stats.last_trace_tracing_start,
                                  stats.last_trace_tracing_stop>>,
                    prior |-> f.prior, pre_executed |-> f.pre.last_executed,
                    anyok |-> f.anyok,
                    ran |-> IF f.c # PyNone THEN ExecArgs(CallArgs[f.a]) ELSE NoHarness]

AtFn(t, pc) ==
    /\ ~exc[t]
    /\ stack[t] # <<>>
    /\ Top(t).kind = "_fn"
    /\ Top(t).pc = pc

\* a hit that keeps the tracing timestamps of an earlier call
HitKeepingStamps(stats, c) ==
    [stats EXCEPT !.cache_hits = @ + 1,
                  !.last_executed = c,
                  !.last_trace_cache_stop = time_ns',
                  !.last_trace_host_execution_start = time_ns']

\* cs after the statistics of a cache hit (lines 582-586, 595-600)
Hit(stats, c) ==
    [stats EXCEPT !.cache_hits = @ + 1,
                  !.last_executed = c,
                  !.last_trace_cache_stop = time_ns',
                  !.last_trace_tracing_start = Unset,
                  !.last_trace_tracing_stop = Unset,
                  !.last_trace_host_execution_start = time_ns']

\* a FIXED-mode check that gives way to an active trace
FixedHitOutsideTrace(stats) ==
    cd.cache_mode = "FIXED" /\ stats.last_executed # PyNone /\ tracectx["t1"] = PyNone

\* line 579: the FIXED-mode check
FixedHit(stats) == cd.cache_mode = "FIXED" /\ stats.last_executed # PyNone

\* a lookup that fingerprints the implicit parameters too
DynamicLookupAllArgs(stats, call) ==
    IF cd.cache_mode = "DYNAMIC_STRIDES"
    THEN cache_get(stats.cache, call.args, call.kwargs)[1]
    ELSE PyNone

\* lines 591-593: the DYNAMIC_STRIDES lookup; the executable found, or None
DynamicLookup(stats, call) ==
    IF cd.cache_mode = "DYNAMIC_STRIDES"
    THEN cache_get(stats.cache, Drop(call.args, cd.num_constant_args), call.kwargs)[1]
    ELSE PyNone

\* an autograd branch that gives way to an active trace
UseAutogradOutsideTrace(call) ==
    ~cd.disable_torch_autograd_support /\ requires_grad(call) /\ tracectx["t1"] = PyNone

\* lines 609-612: flat_args, requires_grad and the test of the branch
UseAutograd(call) == ~cd.disable_torch_autograd_support /\ requires_grad(call)

\* the frame f of _fn once lines 573-606 have run: what they added to the
\* counters
Counted(f, stats) ==
    [f EXCEPT !.calls = stats.calls - cs.calls,
              !.hits = stats.cache_hits - cs.cache_hits,
              !.misses = stats.cache_misses - cs.cache_misses]

\* line 592: cache_get hashes the fingerprint, and the hash raises
LookupRaises(call) ==
    /\ cd.cache_mode = "DYNAMIC_STRIDES"
    /\ HashRaises(_make_cache_key(Drop(call.args, cd.num_constant_args), call.kwargs))

\* a counter that is written back as it was read
IncrementSkipped(v) == v

\* line 574: the value `cs.calls += 1` writes, having read v
Incremented(v) == v + 1

\* lines 573-606, and on a miss lines 608-626 (the autograd branch, up to the
\* call of its executable) or lines 644-645 (up to the call of fn in trace).
\* `under` is what the caller pushes first: nothing when user code calls
\* _fn, its own frame when the adapter does.  `calls` is what line 574 read
\* of cs.calls and `host_start` what line 573 wrote
CallFnLoaded(t, a, under, calls, host_start) ==
    /\ InUserCode(t)
    /\ events < MaxEvents
    /\ events' = events + 1
    /\ Len(CallArgs[a].args) >= cd.num_constant_args
    /\ now' = now + 1
    /\ LET call == CallArgs[a]
           f == Counted(FnFrame(t, a), cs')
           s0 == [cs EXCEPT !.last_trace_host_start = host_start,
                            !.calls = Incremented(calls),
                            !.last_trace_cache_start = time_ns']
           c == DynamicLookup(s0, call)
           s1 == [s0 EXCEPT !.cache_misses = @ + 1,
                            !.last_trace_cache_stop = time_ns']
       IN  IF FixedHit(s0)
           THEN /\ cs' = Hit(s0, s0.last_executed)
                /\ stack' = [stack EXCEPT ![t] = Append(@ \o under,
                       [f EXCEPT !.pc = "run", !.path = "hit_fixed", !.c = s0.last_executed])]
                /\ UNCHANGED <<tracectx, langctx, ntraces>>
           ELSE IF LookupRaises(call)
           THEN /\ cs' = s0
                /\ stack' = [stack EXCEPT ![t] = Append(@ \o under,
                       [f EXCEPT !.pc = "lookup", !.path = "lookup"])]
                /\ UNCHANGED <<tracectx, langctx, ntraces>>
           ELSE IF c # PyNone
           THEN /\ cs' = Hit(s0, c)
                /\ stack' = [stack EXCEPT ![t] = Append(@ \o under,
                       [f EXCEPT !.pc = "run", !.path = "hit_dynamic", !.c = c])]
                /\ UNCHANGED <<tracectx, langctx, ntraces>>
           ELSE IF UseAutograd(call)
           THEN /\ cs' = [s1 EXCEPT !.last_trace_host_execution_start = time_ns']
                /\ stack' = [stack EXCEPT ![t] = Append(@ \o under,
                       [f EXCEPT !.pc = "autograd", !.path = "autograd",
                                 !.c = Function(f.n, a)])]
                /\ UNCHANGED <<tracectx, langctx, ntraces>>
           ELSE LET e == TraceEnter(t, "call", f.n, cd.langctx, TRUE)
                IN  /\ cs' = [s1 EXCEPT !.last_trace_tracing_start = time_ns']
                    /\ stack' = [stack EXCEPT ![t] =
                                    Append(Append(@ \o under, [f EXCEPT !.pc = "acquire"]),
                                           e.frame)]
                    /\ langctx' = [langctx EXCEPT ![t] = e.langctx]
                    /\ tracectx' = [tracectx EXCEPT ![t] = e.tracectx]
                    /\ ntraces' = ntraces + e.created
    /\ UNCHANGED <<cd, pipeline, exc, ret, history>>

\* lines 573-606 run without another thread in between
CallFnFrom(t, a, under) == CallFnLoaded(t, a, under, cs.calls, time_ns')

\* user code calls _fn, the compiled function
CallFn(t, a) ==
    /\ TypeOf(tom) = "NoneType"
    /\ CallFnFrom(t, a, <<>>)
    /\ UNCHANGED <<adapter, harness>>

\* line 592 raises: the exception of cache_get leaves _fn
FnLookupRaise(t) ==
    /\ AtFn(t, "lookup")
    /\ FnEnd(t, Top(t), FALSE, "none", cs)
    /\ UNCHANGED <<cd, pipeline, adapter, cs, ret, tracectx, langctx, ntraces,
                   events, now, harness>>

\* lines 587-590 and 601-604: the cached executable returns
FnRunCached(t) ==
    /\ AtFn(t, "run")
    /\ cs' = [cs EXCEPT !.last_trace_host_execution_stop = time_ns,
                        !.last_trace_host_stop = time_ns]
    /\ FnEnd(t, Top(t), TRUE, "none", cs')
    /\ UNCHANGED <<cd, pipeline, adapter, ret, tracectx, langctx, ntraces,
                   events, now, harness>>

\* lines 587 and 601: the cached executable raises
FnRunCachedRaise(t) ==
    /\ AtFn(t, "run")
    /\ events < MaxEvents
    /\ events' = events + 1
    /\ FnEnd(t, Top(t), FALSE, "none", cs)
    /\ UNCHANGED <<cd, pipeline, adapter, cs, ret, tracectx, langctx, ntraces,
                   now, harness>>

\* a cache_put in every cache mode
MaybePutAnyMode(stats, c, traces, call) ==
    LET r == cache_put(stats.cache, c, traces,
                       Drop(call.args, cd.num_constant_args), call.kwargs)
    IN  <<[stats EXCEPT !.cache = r[2]], IF r[1] THEN "True" ELSE "False">>

\* a cache_put that fingerprints the implicit parameters too
MaybePutAllArgs(stats, c, traces, call) ==
    IF cd.cache_mode = "DYNAMIC_STRIDES"
    THEN LET r == cache_put(stats.cache, c, traces, call.args, call.kwargs)
         IN  <<[stats EXCEPT !.cache = r[2]], IF r[1] THEN "True" ELSE "False">>
    ELSE <<stats, "none">>

\* cs and what cache_put returned, after `if cd.cache_mode is DYNAMIC_STRIDES:
\* cache_put(...)` (lines 630-631, 689-690)
MaybePut(stats, c, traces, call) ==
    IF cd.cache_mode = "DYNAMIC_STRIDES"
    THEN LET r == cache_put(stats.cache, c, traces,
                            Drop(call.args, cd.num_constant_args), call.kwargs)
         IN  <<[stats EXCEPT !.cache = r[2]], IF r[1] THEN "True" ELSE "False">>
    ELSE <<stats, "none">>

\* lines 627-633: the executable of thunder_backward returns
FnAutogradReturn(t) ==
    /\ AtFn(t, "autograd")
    /\ LET f == Top(t)
           s1 == [cs EXCEPT !.last_trace_host_execution_stop = time_ns,
                            !.last_executed = f.c]
           r == MaybePut(s1, f.c, PyNone, CallArgs[f.a])
       IN  /\ cs' = [r[1] EXCEPT !.last_trace_host_stop = time_ns]
           /\ FnEnd(t, f, TRUE, r[2], cs')
    /\ UNCHANGED <<cd, pipeline, adapter, ret, tracectx, langctx, ntraces,
                   events, now, harness>>

\* lines 626-627: thunder_backward or its executable raises
FnAutogradRaise(t) ==
    /\ AtFn(t, "autograd")
    /\ events < MaxEvents
    /\ events' = events + 1
    /\ FnEnd(t, Top(t), FALSE, "none", cs)
    /\ UNCHANGED <<cd, pipeline, adapter, cs, ret, tracectx, langctx, ntraces,
                   now, harness>>

\* line 645 raises: the exception of trace() passes through _fn
FnAcquireRaise(t) ==
    /\ exc[t]
    /\ stack[t] # <<>>
    /\ Top(t).kind = "_fn"
    /\ Top(t).pc = "acquire"
    /\ FnEnd(t, [Top(t) EXCEPT !.path = "tracing"], FALSE, "none", cs)
    /\ UNCHANGED <<cd, pipeline, adapter, cs, ret, tracectx, langctx, ntraces,
                   events, now, harness>>

\* the k-th trace that the pass `name` makes of the trace trc
Applied(trc, name, k) ==
    TraceObj(Payload(trc).by, Payload(trc).n, Append(Payload(trc).stage, <<name, k>>))

\* a transform, a post-optimization transform or the lowering pipeline called
\* with trc: the trace it returns and the sequence of traces it returns, an
\* intermediate trace and then the returned one
Transform(trc, name) ==
    [trc |-> Applied(trc, name, 2),
     seq |-> <<Applied(trc, name, 1), Applied(trc, name, 2)>>]

\* a loop that hands every transform the trace the loop started with
RECURSIVE ApplyTransformsToFirst(_, _, _, _)
ApplyTransformsToFirst(trc, traces, names, i) ==
    IF i > Len(names)
    THEN [trc |-> IF names = <<>> THEN trc ELSE Transform(trc, names[Len(names)]).trc,
          traces |-> traces]
    ELSE ApplyTransformsToFirst(trc, traces \o Transform(trc, names[i]).seq, names, i + 1)

\* lines 666-668 and 536-538: `for transform in ...: trc, seq =
\* transform(trc); traces.extend(seq)`, from the i-th transform on; the trace
\* and the list after the loop
RECURSIVE ApplyTransforms(_, _, _, _)
ApplyTransforms(trc, traces, names, i) ==
    IF i > Len(names)
    THEN [trc |-> trc, traces |-> traces]
    ELSE LET r == Transform(trc, names[i])
         IN  ApplyTransforms(r.trc, traces \o r.seq, names, i + 1)

\* _execute_trace (lines 518-549) when nothing raises: the executable and
\* the traces of the lowering pipeline and the post-optimization transforms
_execute_trace(trc, c) ==
    LET lowered == Transform(trc, "transform_for_execution")
        r == ApplyTransforms(lowered.trc, lowered.seq, post_optimization_transforms, 1)
    IN  [c |-> c, extrace |-> r.trc, extraces |-> r.traces]

\* a check that fails whenever transforms are registered
check_inlining_no_transforms(current_trace) == Len(transforms) = 0

\* lines 650-654: check(current_trace is None or len(transforms) == 0, ...)
\* passes
check_inlining(current_trace) == current_trace = PyNone \/ Len(transforms) = 0

\* lines 646-693, trace() having returned: the inlined return, the
\* NotImplementedError of line 650, or the transforms, the lowering pipeline
\* and the first execution, all of which succeed
FnFinish(t) ==
    /\ AtFn(t, "acquire")
    /\ LET f == Top(t)
           current_trace == tracectx[t]
           s1 == [cs EXCEPT !.last_trace_tracing_stop = time_ns]
       IN  IF ~check_inlining(current_trace)
           THEN /\ cs' = s1
                /\ FnEnd(t, [f EXCEPT !.path = "unsupported"], FALSE, "none", s1)
           ELSE IF current_trace # PyNone
           THEN /\ cs' = s1
                /\ FnEnd(t, [f EXCEPT !.path = "inlined"], TRUE, "none", s1)
           ELSE LET acquired == ApplyTransforms(ret[t], <<ret[t]>>, transforms, 1)
                    executed == _execute_trace(acquired.trc, Function(f.n, f.a))
                    traces == PyList(acquired.traces \o executed.extraces)
                    c == executed.c
                    s2 == [s1 EXCEPT !.last_trace_host_execution_start = time_ns,
                                     !.last_trace_host_execution_stop = time_ns,
                                     !.last_traces = traces,
                                     !.last_executed = c]
                    r == MaybePut(s2, c, traces, CallArgs[f.a])
                IN  /\ cs' = [r[1] EXCEPT !.last_trace_host_stop = time_ns]
                    /\ FnEnd(t, [f EXCEPT !.path = "traced", !.c = c], TRUE, r[2], cs')
    /\ ret' = [ret EXCEPT ![t] = PyNone]
    /\ UNCHANGED <<cd, pipeline, adapter, tracectx, langctx, ntraces, events, now, harness>>

\* a failure that comes after cs.last_executed was set
FnExecuteRaiseStored(t, started) ==
    /\ AtFn(t, "acquire")
    /\ tracectx[t] = PyNone
    /\ events < MaxEvents
    /\ events' = events + 1
    /\ cs' = [cs EXCEPT !.last_trace_tracing_stop = time_ns,
                        !.last_executed = Function(Top(t).n, Top(t).a)]
    /\ FnEnd(t, [Top(t) EXCEPT !.path = "traced"], FALSE, "none", cs')
    /\ ret' = [ret EXCEPT ![t] = PyNone]
    /\ UNCHANGED <<cd, pipeline, adapter, tracectx, langctx, ntraces, now,
                   harness>>

\* lines 666-681: a transform, the lowering pipeline or the first execution
\* raises; line 674 has run when `started`
FnExecuteRaise(t, started) ==
    /\ AtFn(t, "acquire")
    /\ tracectx[t] = PyNone
    /\ events < MaxEvents
    /\ events' = events + 1
    /\ cs' = [cs EXCEPT !.last_trace_tracing_stop = time_ns,
                        !.last_trace_host_execution_start =
                            IF started THEN time_ns ELSE @]
    /\ FnEnd(t, [Top(t) EXCEPT !.path = "traced"], FALSE, "none", cs')
    /\ ret' = [ret EXCEPT ![t] = PyNone]
    /\ UNCHANGED <<cd, pipeline, adapter, tracectx, langctx, ntraces, now,
                   harness>>

Step(t) ==
    \/ \E a \in DirectCalls : CallFn(t, a)
    \/ FnLookupRaise(t)
    \/ FnRunCached(t)
    \/ FnRunCachedRaise(t)
    \/ FnAutogradReturn(t)
    \/ FnAutogradRaise(t)
    \/ FnAcquireRaise(t)
    \/ FnFinish(t)
    \/ \E started \in BOOLEAN : FnExecuteRaise(t, started)
    \/ \E i \in BOOLEAN : CallTrace(t, i)
    \/ TraceReturn(t)
    \/ TraceRaise(t)
    \/ Catch(t)

\* calls of the compiled entity are serialized by its callers: one thread
Next == Step("t1")

Spec == Init /\ [][Next]_vars

(***************************************************************************)
(* ThunderOptimizedModule: the adapter _create_callable puts around _fn    *)
(* when the compiled entity is a torch.nn.Module.  A name is the sequence  *)
(* of its characters; an object is the function from its attribute names   *)
(* to their values.                                                        *)
(***************************************************************************)
\* the names preprocessing harvested: "w" and "s.b"
ParamNames == << <<"w">>, <<"s", ".", "b">> >>
\* the list object cd.additional_param_values refers to
ParamValues == "additional_param_values"

\* the model: a parameter w and a submodule s with a buffer b
Model0 == (<<"w">> :> W4) @@ (<<"s">> :> (<<"b">> :> W44))

\* k.split(".")
RECURSIVE SplitFrom(_, _, _)
SplitFrom(k, i, part) ==
    IF i > Len(k) THEN <<part>>
    ELSE IF k[i] = "." THEN <<part>> \o SplitFrom(k, i + 1, <<>>)
    ELSE SplitFrom(k, i + 1, Append(part, k[i]))
split(k) == SplitFrom(k, 1, <<>>)

\* lines 320-324: m = self._model; for p in parts[:-1]: m = getattr(m, p);
\* setattr(m, parts[-1], v).  The object m with the leaf replaced
RECURSIVE setattr_path(_, _, _)
setattr_path(m, parts, v) ==
    IF Len(parts) = 1
    THEN DictSet(m, parts[1], v)
    ELSE [m EXCEPT ![parts[1]] = setattr_path(m[parts[1]], Tail(parts), v)]

\* the attribute of m at the end of a path of names
RECURSIVE getattr_path(_, _)
getattr_path(m, parts) ==
    IF Len(parts) = 1 THEN m[parts[1]] ELSE getattr_path(m[parts[1]], Tail(parts))

\* indexes taken from the order of the return names
ReturnParamIdxesByPosition(names, return_names) ==
    [i \in 1..Len(return_names) |-> i]

\* lines 306-307: d = {k: i for i, k in enumerate(additional_param_names)};
\* [d[k] for k in additional_return_names].  Indexes count from 1 here
ReturnParamIdxes(names, return_names) ==
    [i \in 1..Len(return_names) |->
        CHOOSE j \in 1..Len(names) :
            /\ names[j] = return_names[i]
            /\ \A l \in (j + 1)..Len(names) : names[l] # return_names[i]]

\* ThunderOptimizedModule.__init__ (lines 303-307): the list of values is
\* kept by reference
ThunderOptimizedModule(additional_param_names, additional_param_values, additional_return_names) ==
    <<"ThunderOptimizedModule",
      [_additional_param_values |-> additional_param_values,
       _additional_param_names |-> additional_param_names,
       _additional_return_names |-> additional_return_names,
       _additional_return_param_idxes |->
           ReturnParamIdxes(additional_param_names, additional_return_names)]>>

\* a module with two implicit parameters, in any cache mode, with autograd
\* support on or off, that declares no extra return, one, or two in an order
\* that is not the order of the parameters (lines 177-193 and 695-703)
InitModule ==
    /\ cd \in [cache_mode : {"ALWAYS_TRACE", "FIXED", "DYNAMIC_STRIDES"},
               num_constant_args : {Len(ParamNames)},
               disable_torch_autograd_support : BOOLEAN,
               langctx : {"numpy"},
               additional_param_names : {ParamNames},
               additional_param_values : {ParamValues},
               additional_return_names :
                   {<<>>, <<ParamNames[2]>>, <<ParamNames[2], ParamNames[1]>>}]
    /\ transforms = <<>>
    /\ post_optimization_transforms = <<>>
    /\ InitMain
    /\ heap = [r \in {ParamValues} |-> <<W4, W44>>]
    /\ model = Model0
    /\ tom = ThunderOptimizedModule(cd.additional_param_names,
                                    cd.additional_param_values,
                                    cd.additional_return_names)
    /\ lastm = NoModuleCall
    /\ ka = NoHarness /\ kb = NoHarness
    /\ ra = NoResult /\ rb = NoResult /\ rc = NoResult
    /\ unpack = NoUnpack
    /\ seal = NoSeal
    /\ mat = NoMaterialization
    /\ conc = NoThreads

\* the frame of a call of ThunderOptimizedModule.__call__: the explicit
\* arguments ModuleExplicit[e], the arguments CallArgs[a] handed to _fn, and
\* what the call found when it started
ModuleFrame(e, a) ==
    [kind |-> "module", pc |-> "forward", e |-> e, a |-> a, n |-> cs.calls + 1,
     pre_values |-> heap[Payload(tom)._additional_param_values], pre_model |-> model]

\* all_args without the implicit parameters the adapter holds now: the ones
\* it was constructed with
all_args_initial(values, args) == <<W4, W44>> \o args

\* line 310: all_args = (*self._additional_param_values, *args)
all_args(values, args) == values \o args

\* lines 310-311: the adapter calls self._forward_fn(*all_args, **kwargs),
\* which is _fn
ModuleCall(t, e) ==
    /\ TypeOf(tom) = "ThunderOptimizedModule"
    /\ \E a \in (Len(CallArgs) - Len(ModuleCalls) + 1)..Len(CallArgs) :
           /\ CallArgs[a] =
                  [args |-> all_args(heap[Payload(tom)._additional_param_values],
                                     ModuleExplicit[e].args),
                   kwargs |-> ModuleExplicit[e].kwargs]
           /\ CallFnFrom(t, a, <<ModuleFrame(e, a)>>)
    /\ UNCHANGED <<adapter, harness>>

\* the adapter's call ends: its frame is popped and the history is updated
ModuleEnd(t, ok, returned, at) ==
    /\ stack' = [stack EXCEPT ![t] = Pop(t)]
    /\ exc' = [exc EXCEPT ![t] = ~ok /\ Pop(t) # <<>>]
    /\ lastm' = [n |-> Top(t).n, ok |-> ok, a |-> Top(t).a, returned |-> returned,
                 at |-> at, pre_values |-> Top(t).pre_values,
                 pre_model |-> Top(t).pre_model]

\* a check that lets more values than names through
ReturnsMatchAtLeast(return_names, additional_returns) ==
    Len(return_names) <= Len(additional_returns)

\* lines 314-316: the assert holds
ReturnsMatch(return_names, additional_returns) ==
    Len(return_names) = Len(additional_returns)

\* lines 317-325: the loop over zip(names, additional_returns, idxes), from
\* its i-th turn on; the pair <<model, values>> after it
RECURSIVE WriteBack(_, _, _, _)
WriteBack(i, additional_returns, m, values) ==
    IF \/ i > Len(Payload(tom)._additional_return_names)
       \/ i > Len(additional_returns)
       \/ i > Len(Payload(tom)._additional_return_param_idxes)
    THEN <<m, values>>
    ELSE LET k == Payload(tom)._additional_return_names[i]
             v == additional_returns[i]
             idx == Payload(tom)._additional_return_param_idxes[i]
         IN  WriteBack(i + 1, additional_returns,
                       setattr_path(m, split(k), v),
                       [values EXCEPT ![idx] = v])

\* lines 312-326, _forward_fn having returned an iterable of r values: the
\* result and r - 1 extra values (r = 0: nothing to unpack at line 313)
ModuleFinish(t, r) ==
    /\ ~exc[t]
    /\ stack[t] # <<>>
    /\ Top(t).kind = "module"
    /\ LET additional_returns == [i \in 1..(r - 1) |-> Extra(i)]
           values == heap[Payload(tom)._additional_param_values]
       IN  IF Payload(tom)._additional_return_names = <<>>
           THEN /\ ModuleEnd(t, TRUE, r, "return")
                /\ UNCHANGED <<model, heap>>
           ELSE IF r = 0
           THEN /\ ModuleEnd(t, FALSE, r, "unpack")
                /\ UNCHANGED <<model, heap>>
           ELSE IF ~ReturnsMatch(Payload(tom)._additional_return_names, additional_returns)
           THEN /\ ModuleEnd(t, FALSE, r, "assert")
                /\ UNCHANGED <<model, heap>>
           ELSE LET w == WriteBack(1, additional_returns, model, values)
                IN  /\ ModuleEnd(t, TRUE, r, "return")
                    /\ model' = w[1]
                    /\ heap' = [heap EXCEPT ![Payload(tom)._additional_param_values] = w[2]]
    /\ UNCHANGED <<cd, pipeline, cs, ret, tracectx, langctx, ntraces, events, now,
                   history, tom, harness>>

\* line 311 raises: the exception of _fn passes through the adapter
ModuleRaise(t) ==
    /\ exc[t]
    /\ stack[t] # <<>>
    /\ Top(t).kind = "module"
    /\ ModuleEnd(t, FALSE, -1, "forward")
    /\ UNCHANGED <<cd, pipeline, cs, ret, tracectx, langctx, ntraces, events, now,
                   history, tom, model, heap, harness>>

StepModule(t) ==
    \/ \E e \in 1..Len(ModuleExplicit) : ModuleCall(t, e)
    \/ \E r \in 0..(MaxExtras + 1) : ModuleFinish(t, r)
    \/ ModuleRaise(t)
    \/ FnLookupRaise(t)
    \/ FnRunCached(t)
    \/ FnRunCachedRaise(t)
    \/ FnAutogradReturn(t)
    \/ FnAutogradRaise(t)
    \/ FnAcquireRaise(t)
    \/ FnFinish(t)
    \/ \E started \in BOOLEAN : FnExecuteRaise(t, started)
    \/ \E i \in BOOLEAN : CallTrace(t, i)
    \/ TraceReturn(t)
    \/ TraceRaise(t)
    \/ Catch(t)

NextModule == StepModule("t1")

SpecModule == InitModule /\ [][NextModule]_vars

(***************************************************************************)
(* The fingerprint engine on its own: two argument sets drawn from a       *)
(* bounded family, and their fingerprints.                                 *)
(***************************************************************************)
T0 == Tensor(<<4>>, "cpu", "float32", FALSE, 0)

\* the values placed in the argument sets: tensors that differ from T0 in one
\* attribute, scalars and a string, and values that have no sub-key
Leaves ==
    { T0,
      Tensor(<<4>>, "cpu", "float32", FALSE, 1),
      Tensor(<<4, 4>>, "cpu", "float32", FALSE, 0),
      Tensor(<<4>>, "cuda", "float32", FALSE, 0),
      Tensor(<<4>>, "cpu", "int64", FALSE, 0),
      Tensor(<<4>>, "cpu", "float32", TRUE, 0),
      PyInt(1), PyInt(2), PyFloat(1), PyStr("a"),
      NdArray(0), PyDict(<<>>), Unhashable(0) }

\* x inside d sequences of the given kind, each after a well-formed element
RECURSIVE Nest(_, _, _)
Nest(x, d, kind) ==
    IF d = 0 THEN x ELSE <<kind, <<PyStr("s"), Nest(x, d - 1, kind)>>>>

Nested == Leaves \cup { Nest(x, d, kind) : x \in Leaves, d \in 1..MaxNest,
                                           kind \in {"list", "tuple"} }

\* a value as the first argument (the implicit parameter of a module), as the
\* second argument, or as the value of a keyword
KeyInputs ==
    { [args |-> <<v, T0>>, kwargs |-> <<>>] : v \in Nested }
    \cup { [args |-> <<T0, v>>, kwargs |-> <<>>] : v \in Nested }
    \cup { [args |-> <<T0>>, kwargs |-> << <<"k", v>> >>] : v \in Nested }

InitKey ==
    /\ cd \in [cache_mode : {"DYNAMIC_STRIDES"}, num_constant_args : {0, 1},
               disable_torch_autograd_support : {FALSE}, langctx : {"numpy"}]
    /\ transforms = <<>>
    /\ post_optimization_transforms = <<>>
    /\ InitMain
    /\ NoAdapter
    /\ ka \in KeyInputs /\ kb \in KeyInputs
    /\ ra = NoResult /\ rb = NoResult /\ rc = NoResult
    /\ unpack = NoUnpack
    /\ seal = NoSeal
    /\ mat = NoMaterialization
    /\ conc = NoThreads

\* _make_cache_key(args, kwargs) for the first argument set, then the second
KeyA ==
    /\ ra = NoResult
    /\ ra' = <<"key", _make_cache_key(ka.args, ka.kwargs)>>
    /\ UNCHANGED <<cd, pipeline, adapter, cs, stack, exc, ret, tracectx, langctx, ntraces,
                   events, now, history, ka, kb, rb, rc, unpack, seal, mat, conc>>

KeyB ==
    /\ ra # NoResult /\ rb = NoResult
    /\ rb' = <<"key", _make_cache_key(kb.args, kb.kwargs)>>
    /\ UNCHANGED <<cd, pipeline, adapter, cs, stack, exc, ret, tracectx, langctx, ntraces,
                   events, now, history, ka, kb, ra, rc, unpack, seal, mat, conc>>

\* lines 689-690: the dispatcher caches an executable for the first argument set
KeyPut ==
    /\ rb # NoResult /\ rc = NoResult
    /\ LET r == MaybePut(cs, Function(1, 0), PyNone, ka)
       IN  /\ cs' = r[1]
           /\ rc' = <<"put", PyStr(r[2])>>
    /\ UNCHANGED <<cd, pipeline, adapter, stack, exc, ret, tracectx, langctx, ntraces,
                   events, now, history, ka, kb, ra, rb, unpack, seal, mat, conc>>

\* lines 591-593: the dispatcher looks the second argument set up
KeyGet ==
    /\ rc[1] = "put"
    /\ rc' = <<"get", DynamicLookup(cs, kb)>>
    /\ UNCHANGED <<cd, pipeline, adapter, cs, stack, exc, ret, tracectx, langctx, ntraces,
                   events, now, history, ka, kb, ra, rb, unpack, seal, mat, conc>>

NextKey == KeyA \/ KeyB \/ KeyPut \/ KeyGet

SpecKey == InitKey /\ [][NextKey]_vars

(***************************************************************************)
(* _unpack_inputs: the arguments of a call are bound into a new trace.     *)
(* A Proxy is an object: id is its identity, name its name.                *)
(***************************************************************************)
Proxy(id, name, of) == <<"Proxy", [id |-> id, name |-> name, of |-> of]>>

\* proxies a trace that is still live made earlier: one whose name is the
\* name of a parameter, one with a generated name
P1 == Proxy(1, "a", "Tensor")
P2 == Proxy(2, "t0", "Tensor")
OldProxies == {P1, P2}

\* the names the new trace generates when none is requested
GenNames == <<"t1", "t2", "t3", "t4", "t5", "t6", "t7", "t8">>

\* a tensor or a number that is not a proxy
is_proxyable(x) == TypeOf(x) \in {"Tensor", "int", "float", "bool"}

\* the name a new proxy gets: the requested one, or a generated one
NewName(name, st) == IF TypeOf(name) = "NoneType" THEN GenNames[st.made + 1] ELSE Payload(name)

\* a new proxy object enters the trace
Made(p, st) == <<p, [names |-> st.names \cup {Payload(p).name}, made |-> st.made + 1]>>

\* proxy(x, name=name): a new proxy for a raw value
proxy(x, name, st) ==
    Made(Proxy(Cardinality(OldProxies) + st.made + 1, NewName(name, st), TypeOf(x)), st)

\* x.replace_name(name): a copy of the proxy x under the requested name
replace_name(x, name, st) ==
    Made(Proxy(Cardinality(OldProxies) + st.made + 1, NewName(name, st), Payload(x).of), st)

\* ltorch.to_thunder_dtype(x)
to_thunder_dtype(x) == <<"thunder.dtype", Payload(x)>>

\* the Proxy branch that keeps the proxy whatever rename_proxies is
TranslateProxyKeep(x, name, rename_proxies, st) ==
    <<x, [st EXCEPT !.names = @ \cup {Payload(x).name}]>>

\* lines 215-219: isinstance(x, Proxy)
TranslateProxy(x, name, rename_proxies, st) ==
    IF ~rename_proxies
    THEN <<x, [st EXCEPT !.names = @ \cup {Payload(x).name}]>>
    ELSE replace_name(x, name, st)

\* translate (lines 202-225) and, for a collection, tree_map(translate, x):
\* the pair of the translated value and the trace's names and object count
RECURSIVE translate(_, _, _, _)
RECURSIVE TreeMapTranslate(_, _, _, _)
translate(x, name, rename_proxies, st) ==
    IF is_proxyable(x)
    THEN proxy(x, name, st)
    ELSE IF TypeOf(x) = "Proxy"
    THEN TranslateProxy(x, name, rename_proxies, st)
    ELSE IF TypeOf(x) = "dtype"
    THEN <<to_thunder_dtype(x), st>>
    ELSE IF is_collection(x)
    THEN LET r == TreeMapTranslate(Payload(x), 1, rename_proxies, st)
         IN  <<(<<TypeOf(x), r[1]>>), r[2]>>
    ELSE <<x, st>>

TreeMapTranslate(items, i, rename_proxies, st) ==
    IF i > Len(items)
    THEN <<(<<>>), st>>
    ELSE LET r == translate(items[i], PyNone, rename_proxies, st)
             rest == TreeMapTranslate(items, i + 1, rename_proxies, r[2])
         IN  <<(<<r[1]>> \o rest[1]), rest[2]>>

\* what get_siginfo binds: positional parameters a and b, *args or none, and
\* the keyword parameter k or none
Varargs(x) == <<"varargs", [name |-> "args", x |-> x]>>
UnpackValues ==
    {T0, PyInt(1), P1, P2, PyList(<<P2, T0>>), PyTuple(<<PyList(<<P1>>), P2>>),
     Dtype("float32"), PyStr("s")}
SigInfos ==
    [args : {<< <<"a", x>>, <<"b", y>> >> : x \in UnpackValues, y \in {T0, P1, P2}},
     varargs : {PyNone, Varargs(PyTuple(<<P1, T0>>))},
     kwargs : {<<>>, << <<"k", P2>> >>}]

\* _trace has constructed a TraceCtx and calls _unpack_inputs (lines 461-465)
InitUnpack ==
    /\ cd \in [cache_mode : {"ALWAYS_TRACE"}, num_constant_args : {0},
               disable_torch_autograd_support : {FALSE}, langctx : {"numpy"}]
    /\ transforms = <<>>
    /\ post_optimization_transforms = <<>>
    /\ InitMain
    /\ NoAdapter
    /\ ka = NoHarness /\ kb = NoHarness
    /\ ra = NoResult /\ rb = NoResult /\ rc = NoResult
    /\ \E r \in BOOLEAN, si \in SigInfos :
           unpack = [NoUnpack EXCEPT !.pc = "call", !.rename_proxies = r, !.si = si]
    /\ seal = NoSeal
    /\ mat = NoMaterialization
    /\ conc = NoThreads

NotUnpack ==
    UNCHANGED <<cd, pipeline, adapter, cs, stack, exc, ret, tracectx, langctx, ntraces,
                events, now, history, ka, kb, ra, rb, rc, seal, mat, conc>>

\* prims.unpack_trivial(translated, name=name): the operation is recorded,
\* and what it returns is a CollectionProxy when the value is a collection
Unpacked(u, translated, name) ==
    [u EXCEPT !.ops = Append(@, <<"unpack_trivial", name>>),
              !.cq = IF is_collection(translated) THEN Append(@, translated) ELSE @]

\* lines 197-198 and 228: tracectx.unpacking(), si = get_siginfo(...)
UnpackStart ==
    /\ unpack.pc = "call"
    /\ unpack' = [unpack EXCEPT !.pc = "args", !.i = 1]
    /\ NotUnpack

\* lines 233-239: one turn of `for name, x in si.args`
UnpackArg ==
    /\ unpack.pc = "args"
    /\ unpack.i <= Len(unpack.si.args)
    /\ LET name == unpack.si.args[unpack.i][1]
           x == unpack.si.args[unpack.i][2]
           r == translate(x, PyStr(name), unpack.rename_proxies, unpack.st)
       IN  unpack' = [Unpacked(unpack, r[1], name)
                         EXCEPT !.st = r[2], !.i = @ + 1,
                                !.proxyargs = Append(@, r[1])]
    /\ NotUnpack

\* lines 241-249: *args, when the signature has it
UnpackVarargs ==
    /\ unpack.pc = "args"
    /\ unpack.i > Len(unpack.si.args)
    /\ IF TypeOf(unpack.si.varargs) = "NoneType"
       THEN unpack' = [unpack EXCEPT !.pc = "kwargs", !.i = 1]
       ELSE LET v == Payload(unpack.si.varargs)
                r == translate(v.x, PyNone, unpack.rename_proxies, unpack.st)
            IN  unpack' = [unpack EXCEPT !.pc = "kwargs", !.i = 1, !.st = r[2],
                                         !.proxyargs = @ \o Payload(r[1]),
                                         !.ops = Append(@, <<"unpack_trivial", v.name>>),
                                         !.cq = Append(@, r[1])]
    /\ NotUnpack

\* lines 251-258: one turn of `for name, x in si.kwargs.items()`
UnpackKwarg ==
    /\ unpack.pc = "kwargs"
    /\ unpack.i <= Len(unpack.si.kwargs)
    /\ LET name == unpack.si.kwargs[unpack.i][1]
           x == unpack.si.kwargs[unpack.i][2]
           r == translate(x, PyStr(name), unpack.rename_proxies, unpack.st)
       IN  unpack' = [Unpacked(unpack, r[1], name)
                         EXCEPT !.st = r[2], !.i = @ + 1,
                                !.proxykwargs = Append(@, <<name, r[1]>>)]
    /\ NotUnpack

\* the collections among the items of a collection
RECURSIVE Collections(_, _)
Collections(items, i) ==
    IF i > Len(items) THEN <<>>
    ELSE (IF is_collection(items[i]) THEN <<items[i]>> ELSE <<>>)
         \o Collections(items, i + 1)

\* lines 270-278: one turn of the loop that drains cq
UnpackCollection ==
    /\ unpack.pc = "kwargs"
    /\ unpack.i > Len(unpack.si.kwargs)
    /\ unpack.cq # <<>>
    /\ unpack' = [unpack EXCEPT !.cq = Tail(@) \o Collections(Payload(Head(@)), 1),
                                !.ops = Append(@, <<"unpack", "collection">>)]
    /\ NotUnpack

\* lines 277-281, then 465-466: cq is empty, tracectx.unpacked(), and _trace
\* stores what _unpack_inputs returns in trace.args and trace.kwargs
UnpackReturn ==
    /\ unpack.pc = "kwargs"
    /\ unpack.i > Len(unpack.si.kwargs)
    /\ unpack.cq = <<>>
    /\ unpack' = [unpack EXCEPT !.pc = "done", !.args = PyTuple(unpack.proxyargs),
                                !.kwargs = PyDict(unpack.proxykwargs)]
    /\ NotUnpack

NextUnpack ==
    \/ UnpackStart
    \/ UnpackArg
    \/ UnpackVarargs
    \/ UnpackKwarg
    \/ UnpackCollection
    \/ UnpackReturn

SpecUnpack == InitUnpack /\ [][NextUnpack]_vars

(***************************************************************************)
(* _trace seals a trace: fn has run on the proxies, futures in its result  *)
(* are waited for, the return is emitted and the output is set.            *)
(***************************************************************************)
\* a FutureTensorProxy the enclosing trace made, and a TensorProxy of it
F0 == Proxy(0, "f0", "FutureTensor")
MaxFutures == 1

\* isinstance(f, FutureTensorProxy)
IsFuture(f) == TypeOf(f) = "Proxy" /\ Payload(f).of = "FutureTensor"

\* an operation recorded in the trace
BoundSymbol(sym, args, out) == [sym |-> sym, args |-> args, out |-> out]

\* lines 484-487: f.wait() for a FutureTensorProxy, which records the wait
\* in the trace and returns a new TensorProxy; anything else is returned
wait_for_future(f, st) ==
    IF IsFuture(f)
    THEN LET r == proxy(T0, PyNone, st)
         IN  [value |-> r[1], st |-> r[2], ops |-> <<BoundSymbol("wait", <<f>>, r[1])>>]
    ELSE [value |-> f, st |-> st, ops |-> <<>>]

\* tree_map(wait_for_future, result): the leaves of a nested result, left to
\* right
RECURSIVE tree_map_wait(_, _)
RECURSIVE TreeMapWaitItems(_, _, _)
tree_map_wait(x, st) ==
    IF is_collection(x)
    THEN LET r == TreeMapWaitItems(Payload(x), 1, st)
         IN  [value |-> <<TypeOf(x), r.value>>, st |-> r.st, ops |-> r.ops]
    ELSE wait_for_future(x, st)

TreeMapWaitItems(items, i, st) ==
    IF i > Len(items)
    THEN [value |-> <<>>, st |-> st, ops |-> <<>>]
    ELSE LET r == tree_map_wait(items[i], st)
             rest == TreeMapWaitItems(items, i + 1, r.st)
         IN  [value |-> <<r.value>> \o rest.value, st |-> rest.st,
              ops |-> r.ops \o rest.ops]

\* line 491: `if trace._any_future_tensors`
any_future_tensors(flag) == flag

\* what fn can return: a value it holds, or tuples and lists of them
Results(leaves) ==
    leaves
    \cup {PyTuple(<<x, y>>) : x, y \in leaves}
    \cup {PyList(<<PyTuple(<<x>>), y>>) : x, y \in leaves}

\* _trace is called with one argument outside the dispatcher: a tensor, a
\* TensorProxy or a FutureTensorProxy of the enclosing trace
InitSeal ==
    /\ cd \in [cache_mode : {"ALWAYS_TRACE"}, num_constant_args : {0},
               disable_torch_autograd_support : {FALSE}, langctx : {"numpy"}]
    /\ transforms = <<>>
    /\ post_optimization_transforms = <<>>
    /\ InitMain
    /\ NoAdapter
    /\ ka = NoHarness /\ kb = NoHarness
    /\ ra = NoResult /\ rb = NoResult /\ rc = NoResult
    /\ unpack = NoUnpack
    /\ \E r \in BOOLEAN, i \in BOOLEAN, x \in {T0, P1, F0} :
           seal = [NoSeal EXCEPT !.pc = "call", !.rename_proxies = r,
                                 !.include_return_statement = i, !.arg = x]
    /\ mat = NoMaterialization
    /\ conc = NoThreads

NotSeal ==
    UNCHANGED <<cd, pipeline, adapter, cs, stack, exc, ret, tracectx, langctx, ntraces,
                events, now, history, ka, kb, ra, rb, rc, unpack, mat, conc>>

\* lines 461-466: TraceCtx(fn), whose _any_future_tensors starts False, and
\* _unpack_inputs.  Whether the copy _unpack_inputs makes of a
\* FutureTensorProxy sets the flag is decided outside this file
SealEnter ==
    /\ seal.pc = "call"
    /\ LET r == translate(seal.arg, PyStr("a"), seal.rename_proxies, seal.st)
       IN  \E flag \in BOOLEAN :
               /\ flag => (IsFuture(r[1]) /\ r[1] # seal.arg)
               /\ seal' = [seal EXCEPT !.pc = "fn", !.proxyarg = r[1], !.st = r[2],
                                       !._any_future_tensors = flag]
    /\ NotSeal

\* line 480, inside fn: an operation that runs asynchronously returns a
\* FutureTensorProxy made in this trace, and the trace's flag is set
FnAsync ==
    /\ seal.pc = "fn"
    /\ Cardinality(seal.futures) < MaxFutures
    /\ LET r == replace_name(F0, PyNone, seal.st)
       IN  seal' = [seal EXCEPT !.st = r[2], !.futures = @ \cup {r[1]},
                                !._any_future_tensors = TRUE,
                                !.ops = Append(@, BoundSymbol("all_gather", <<seal.proxyarg>>, r[1]))]
    /\ NotSeal

\* line 480: fn returns
FnReturn ==
    /\ seal.pc = "fn"
    /\ \E result \in Results({seal.proxyarg, PyInt(1)} \cup seal.futures) :
           seal' = [seal EXCEPT !.pc = "returned", !.fn_result = result]
    /\ NotSeal

\* lines 482-510: the futures are waited for when the trace's flag is set,
\* prims.python_return(result) is recorded, trace.set_output(result)
SealReturn ==
    /\ seal.pc = "returned"
    /\ LET waited == IF seal.include_return_statement
                        /\ any_future_tensors(seal._any_future_tensors)
                     THEN tree_map_wait(seal.fn_result, seal.st)
                     ELSE [value |-> seal.fn_result, st |-> seal.st, ops |-> <<>>]
           returned == IF seal.include_return_statement
                       THEN <<BoundSymbol("python_return", <<waited.value>>, PyNone)>>
                       ELSE <<>>
       IN  seal' = [seal EXCEPT !.pc = "done", !.st = waited.st,
                                !.ops = @ \o waited.ops \o returned,
                                !.output = waited.value]
    /\ NotSeal

NextSeal ==
    \/ SealEnter
    \/ FnAsync
    \/ FnReturn
    \/ SealReturn

SpecSeal == InitSeal /\ [][NextSeal]_vars

(***************************************************************************)
(* MaterializationTransform.transform_module.  A tensor is an object of    *)
(* the heap: its device, its requires_grad and its _thunder_device, "none" *)
(* when it has no such attribute.  A module is the sequences of its named  *)
(* parameters and named buffers, a shared tensor under each of its names.  *)
(***************************************************************************)
TensorObj(device, grad, thunder_device) ==
    [device |-> device, requires_grad |-> grad, _thunder_device |-> thunder_device]

\* the modules: two names of one parameter and a buffer; two parameters and
\* two names of one buffer; a parameter under three names and another one
Layouts ==
    {[parameters |-> << <<"w", 1>>, <<"v", 1>> >>, buffers |-> << <<"b", 2>> >>],
     [parameters |-> << <<"w", 1>>, <<"v", 2>> >>, buffers |-> << <<"b", 3>>, <<"c", 3>> >>],
     [parameters |-> << <<"w", 1>>, <<"u", 2>>, <<"v", 1>>, <<"s.w", 1>> >>, buffers |-> <<>>]}

\* the tensors a module holds
Objects(named) == {named[i][2] : i \in 1..Len(named)}

\* named_parameters() and named_buffers() of the module: a tensor is
\* yielded once, under the first of its names
RECURSIVE RemoveDuplicates(_, _, _)
RemoveDuplicates(named, i, seen) ==
    IF i > Len(named) THEN <<>>
    ELSE IF named[i][2] \in seen THEN RemoveDuplicates(named, i + 1, seen)
    ELSE <<named[i]>> \o RemoveDuplicates(named, i + 1, seen \cup {named[i][2]})

\* model._get_shared_names(): every name with the names of the same tensor
_get_shared_names(named) ==
    [n \in {named[i][1] : i \in 1..Len(named)} |->
        LET o == CHOOSE x \in Objects(named) : \E i \in 1..Len(named) : named[i] = <<n, x>>
        IN  {named[i][1] : i \in {j \in 1..Len(named) : named[j][2] = o}}]

\* lines 45-47: the meta tensors that have no _thunder_device get the device
\* of the transform
Annotated(tensors, device) ==
    [o \in DOMAIN tensors |->
        IF tensors[o].device = "meta" /\ tensors[o]._thunder_device = "none"
        THEN [tensors[o] EXCEPT !._thunder_device = device]
        ELSE tensors[o]]

\* getattr(p, "_thunder_device", self.device)
getattr_thunder_device(p, device) ==
    IF p._thunder_device = "none" THEN device ELSE p._thunder_device

\* lines 54-57 and 63-65: torch.empty_like(p, device=...) with the
\* requires_grad of p; the new tensor has no _thunder_device
empty_like(p, device) == TensorObj(getattr_thunder_device(p, device), p.requires_grad, "none")

\* an override for the name in hand only
InstallForName(overrides, n, names, o) == DictSet(overrides, n, o)

\* lines 58-59 and 66-67: for nn in shared_names[n]:
\* model._overrides_parameters[nn] = p
InstallOverrides(overrides, n, names, o) ==
    [k \in DOMAIN overrides \cup names |-> IF k \in names THEN o ELSE overrides[k]]

\* transform_module is called on a module none of whose parameters and
\* buffers is overridden yet
InitMat ==
    /\ cd \in [cache_mode : {"ALWAYS_TRACE"}, num_constant_args : {0},
               disable_torch_autograd_support : {FALSE}, langctx : {"numpy"}]
    /\ transforms = <<>>
    /\ post_optimization_transforms = <<>>
    /\ InitMain
    /\ NoAdapter
    /\ ka = NoHarness /\ kb = NoHarness
    /\ ra = NoResult /\ rb = NoResult /\ rc = NoResult
    /\ unpack = NoUnpack
    /\ seal = NoSeal
    /\ \E l \in Layouts :
       \E tensors \in [Objects(l.parameters \o l.buffers) ->
                       [device : {"meta", "cpu"}, requires_grad : BOOLEAN,
                        _thunder_device : {"none", "cuda:1"}]] :
           mat = [NoMaterialization EXCEPT !.pc = "call", !.device = "cuda:0",
                                           !.heap = tensors, !.original = tensors,
                                           !.parameters = l.parameters,
                                           !.buffers = l.buffers]
    /\ conc = NoThreads

NotMat ==
    UNCHANGED <<cd, pipeline, adapter, cs, stack, exc, ret, tracectx, langctx, ntraces,
                events, now, history, ka, kb, ra, rb, rc, unpack, seal, conc>>

\* lines 45-52: the first loop, shared_names, and
\* list(model.named_parameters())
MatAnnotate ==
    /\ mat.pc = "call"
    /\ mat' = [mat EXCEPT !.pc = "parameters",
                          !.heap = Annotated(@, mat.device),
                          !.shared_names = _get_shared_names(mat.parameters \o mat.buffers),
                          !.todo = RemoveDuplicates(mat.parameters, 1, {})]
    /\ NotMat

\* one turn of a loop: a meta tensor gets a new tensor, installed under
\* every name it has
Materialized(m) ==
    LET n == Head(m.todo)[1]
        p == m.heap[Head(m.todo)[2]]
        new == Cardinality(DOMAIN m.heap) + 1
    IN  IF p.device = "meta"
        THEN [m EXCEPT !.todo = Tail(@),
                       !.heap = DictSet(@, new, empty_like(p, m.device)),
                       !._overrides_parameters =
                           InstallOverrides(@, n, m.shared_names[n], new)]
        ELSE [m EXCEPT !.todo = Tail(@)]

\* lines 52-59: one turn of `for n, p in list(model.named_parameters())`
MatParameter ==
    /\ mat.pc = "parameters"
    /\ mat.todo # <<>>
    /\ mat' = Materialized(mat)
    /\ NotMat

\* line 61: list(model.named_buffers())
MatBuffers ==
    /\ mat.pc = "parameters"
    /\ mat.todo = <<>>
    /\ mat' = [mat EXCEPT !.pc = "buffers", !.todo = RemoveDuplicates(mat.buffers, 1, {})]
    /\ NotMat

\* lines 61-67: one turn of `for n, b in list(model.named_buffers())`
MatBuffer ==
    /\ mat.pc = "buffers"
    /\ mat.todo # <<>>
    /\ mat' = Materialized(mat)
    /\ NotMat

\* line 69: self.init(self, model)
MatInit ==
    /\ mat.pc = "buffers"
    /\ mat.todo = <<>>
    /\ mat' = [mat EXCEPT !.pc = "done", !.inits = @ + 1,
                          !.init_saw = mat._overrides_parameters]
    /\ NotMat

NextMat ==
    \/ MatAnnotate
    \/ MatParameter
    \/ MatBuffers
    \/ MatBuffer
    \/ MatInit

SpecMat == InitMat /\ [][NextMat]_vars

(***************************************************************************)
(* Two threads call the compiled function.  Nothing in _fn takes a lock:   *)
(* a thread can run between any two statements of another, and between the *)
(* read and the write of `cs.calls += 1`.                                  *)
(***************************************************************************)
\* the argument sets the threads call with: two with equal fingerprints and
\* one with another fingerprint
ThreadCalls == {1, 2, 3}

\* a thread is inside a call of _fn
Busy(t) == stack[t] # <<>> \/ conc.loaded[t].a # 0

\* the calls that have read cs.calls and not yet written it
PendingLoads == Cardinality({t \in Threads : conc.loaded[t].a # 0})

\* no call is under way
Quiescent == \A t \in Threads : ~Busy(t)

\* a compiled function in a caching mode, called from two threads
InitThreads ==
    /\ cd \in [cache_mode : {"FIXED", "DYNAMIC_STRIDES"}, num_constant_args : {0},
               disable_torch_autograd_support : {TRUE}, langctx : {"numpy"}]
    /\ transforms = <<>>
    /\ post_optimization_transforms = <<>>
    /\ InitMain
    /\ NoAdapter
    /\ ka = NoHarness /\ kb = NoHarness
    /\ ra = NoResult /\ rb = NoResult /\ rc = NoResult
    /\ unpack = NoUnpack
    /\ seal = NoSeal
    /\ mat = NoMaterialization
    /\ conc = NoThreads

\* lines 573-574: cs.last_trace_host_start is written and cs.calls is read.
\* The call overlaps another when a thread other than t is inside a call
FnLoadCalls(t, a) ==
    /\ InUserCode(t)
    /\ conc.loaded[t].a = 0
    /\ events + PendingLoads < MaxEvents
    /\ cs' = [cs EXCEPT !.last_trace_host_start = time_ns]
    /\ conc' = [conc EXCEPT !.loaded[t] = [a |-> a, calls |-> cs.calls],
                            !.overlapped = @ \/ \E u \in Threads \ {t} : Busy(u)]
    /\ UNCHANGED <<cd, pipeline, adapter, stack, exc, ret, tracectx, langctx, ntraces,
                   events, now, history, ka, kb, ra, rb, rc, unpack, seal, mat>>

\* lines 574-606: cs.calls is written with what was read plus one, and the
\* call goes on to the lookup
FnStoreCalls(t) ==
    /\ conc.loaded[t].a # 0
    /\ CallFnLoaded(t, conc.loaded[t].a, <<>>, conc.loaded[t].calls, cs.last_trace_host_start)
    /\ conc' = [conc EXCEPT !.loaded[t] = NotLoaded, !.increments = @ + 1]
    /\ UNCHANGED <<adapter, ka, kb, ra, rb, rc, unpack, seal, mat>>

StepThreads(t) ==
    \/ \E a \in ThreadCalls : FnLoadCalls(t, a)
    \/ FnStoreCalls(t)
    \/ FnRunCached(t)
    \/ TraceReturn(t)
    \/ FnFinish(t)

NextThreads == \E t \in Threads : StepThreads(t)

SpecThreads == InitThreads /\ [][NextThreads]_vars

(***************************************************************************)
(* Properties of the fingerprint engine.                                   *)
(***************************************************************************)
\* the values of an argument set that are not sequences, in order
RECURSIVE Flat(_)
RECURSIVE FlatSeq(_, _)
Flat(x) == IF TypeOf(x) \in {"list", "tuple"} THEN FlatSeq(Payload(x), 1) ELSE <<x>>
FlatSeq(items, i) ==
    IF i > Len(items) THEN <<>> ELSE Flat(items[i]) \o FlatSeq(items, i + 1)
FlatCall(args, kwargs) ==
    FlatSeq(args, 1) \o FlatSeq([i \in 1..Len(kwargs) |-> kwargs[i][2]], 1)

IsTensor(x) == TypeOf(x) = "Tensor"
\* shape, device and dtype of the tensors of an argument set, in order
TensorMetas(args, kwargs) ==
    LET ts == SelectSeq(FlatCall(args, kwargs), IsTensor)
    IN  [i \in 1..Len(ts) |->
            <<Payload(ts[i]).shape, Payload(ts[i]).device, Payload(ts[i]).dtype>>]

\* the argument set with E applied to every value that is not a sequence
RECURSIVE MapLeaves(_, _)
MapLeaves(E(_), x) ==
    IF TypeOf(x) \in {"list", "tuple"}
    THEN <<TypeOf(x), [i \in 1..Len(Payload(x)) |-> MapLeaves(E, Payload(x)[i])]>>
    ELSE E(x)
MapCall(E(_), call) ==
    [args |-> [i \in 1..Len(call.args) |-> MapLeaves(E, call.args[i])],
     kwargs |-> [i \in 1..Len(call.kwargs) |->
                    <<call.kwargs[i][1], MapLeaves(E, call.kwargs[i][2])>>]]

\* a value without the contents of a tensor
EraseData(x) ==
    IF IsTensor(x) THEN [x EXCEPT ![2].data = 0] ELSE x
\* a value reduced to its shape, type and device
EraseContents(x) ==
    IF IsTensor(x) THEN [x EXCEPT ![2].data = 0, ![2].requires_grad = FALSE]
    ELSE IF TypeOf(x) \in {"int", "float"} THEN <<TypeOf(x), 0>>
    ELSE x

Indeterminate(x) == TypeOf(x) \in {"ndarray", "dict", "unhashable"}
\* some value of the argument set, at any depth, has no sub-key
HasIndeterminate(call) ==
    \E i \in 1..Len(FlatCall(call.args, call.kwargs)) :
        Indeterminate(FlatCall(call.args, call.kwargs)[i])

BothKeys == ra[1] = "key" /\ rb[1] = "key"
\* the arguments of a call that the dispatcher fingerprints
AfterPrefix(call) == Drop(call.args, cd.num_constant_args)

\* tensors that differ in shape, device or dtype give different fingerprints,
\* unless one of the fingerprints is None
C3_MetasInKey ==
    (BothKeys /\ TensorMetas(ka.args, ka.kwargs) # TensorMetas(kb.args, kb.kwargs)) =>
        \/ ra[2] # rb[2]
        \/ ra[2] = PyNone
        \/ rb[2] = PyNone

\* C3 as stated: changing the shape, device or dtype of any tensor argument
\* changes the fingerprint _make_cache_key returns (or makes one None), and a
\* DYNAMIC_STRIDES lookup never returns the executable cached for a call
\* whose tensor arguments, the implicit parameters included, had another
\* shape, device or dtype.
C3_AllTensorArguments ==
    /\ C3_MetasInKey
    /\ (rc[1] = "get" /\ rc[2] # PyNone) =>
           TensorMetas(ka.args, ka.kwargs) = TensorMetas(kb.args, kb.kwargs)

\* C3, for the arguments that are fingerprinted: changing the shape, device
\* or dtype of any tensor passed to _make_cache_key changes the fingerprint
\* (or makes one None), and a DYNAMIC_STRIDES lookup never returns the
\* executable cached for a call whose tensors after the implicit parameters,
\* or in the keyword values, had another shape, device or dtype.
C3_FingerprintedTensorArguments ==
    /\ C3_MetasInKey
    /\ (rc[1] = "get" /\ rc[2] # PyNone) =>
           TensorMetas(AfterPrefix(ka), ka.kwargs) = TensorMetas(AfterPrefix(kb), kb.kwargs)

\* the shape of a tensor two lists deep changed: other fingerprint, no hit
C3_Witness ==
    /\ cd.num_constant_args = 1
    /\ ka = [args |-> <<T0, Nest(T0, 2, "list")>>, kwargs |-> <<>>]
    /\ kb = [args |-> <<T0, Nest(Tensor(<<4, 4>>, "cpu", "float32", FALSE, 0), 2, "list")>>,
             kwargs |-> <<>>]
    /\ BothKeys /\ ra[2] # PyNone /\ rb[2] # PyNone /\ ra[2] # rb[2]
    /\ rc = <<"get", PyNone>>
    /\ cs.cache # <<>>

\* C4 as stated: two argument sets of tensors, scalars, strings and
\* sequences with identical shapes, types and devices have equal
\* fingerprints, whatever their numeric contents.
C4_SameShapesTypesDevices ==
    (/\ BothKeys
     /\ ~HasIndeterminate(ka) /\ ~HasIndeterminate(kb)
     /\ MapCall(EraseContents, ka) = MapCall(EraseContents, kb)) =>
        ra[2] = rb[2]

\* C4, with what the sub-keys hold: two argument sets of tensors, scalars,
\* strings and sequences that differ only in the contents of tensors (same
\* structure, tensors of the same shape, device, dtype and requires_grad,
\* scalars and strings of the same type and value) have equal fingerprints,
\* and the fingerprint is not None.
C4_SameButTensorContents ==
    (/\ BothKeys
     /\ ~HasIndeterminate(ka) /\ ~HasIndeterminate(kb)
     /\ MapCall(EraseData, ka) = MapCall(EraseData, kb)) =>
        /\ ra[2] = rb[2]
        /\ ra[2] # PyNone

\* a tensor two tuples deep in a keyword value, with other contents
C4_Witness ==
    /\ ka = [args |-> <<T0>>, kwargs |-> << <<"k", Nest(T0, 2, "tuple")>> >>]
    /\ kb = [args |-> <<T0>>,
             kwargs |-> << <<"k", Nest(Tensor(<<4>>, "cpu", "float32", FALSE, 1),
                                       2, "tuple")>> >>]
    /\ BothKeys /\ ra[2] = rb[2] /\ ra[2] # PyNone

\* C5: an argument set with an ndarray, a dict or an unhashable object at any
\* place (an argument, an element of a sequence at any depth, a keyword
\* value) has the fingerprint None: _make_cache_key returns it.
C5_IndeterminatePropagates ==
    /\ (ra[1] = "key" /\ HasIndeterminate(ka)) => ra[2] = PyNone
    /\ (rb[1] = "key" /\ HasIndeterminate(kb)) => rb[2] = PyNone

\* an unhashable object two tuples deep in a keyword value
C5_Witness ==
    /\ ka = [args |-> <<T0>>, kwargs |-> << <<"k", Nest(Unhashable(0), 2, "tuple")>> >>]
    /\ ra = <<"key", PyNone>>

(***************************************************************************)
(* Properties of the dispatcher.                                           *)
(***************************************************************************)
Dynamic == cd.cache_mode = "DYNAMIC_STRIDES"
Fixed == cd.cache_mode = "FIXED"
AlwaysTrace == cd.cache_mode = "ALWAYS_TRACE"

\* a call of the compiled entity has ended; `last` describes it
Ended == last.n > 0
LastCall == CallArgs[last.a]
LastKey == Fingerprint(LastCall)

HitPaths == {"hit_fixed", "hit_dynamic"}
\* the autograd branch, or trace acquisition and what follows it
MissPaths == {"autograd", "tracing", "traced", "inlined", "unsupported"}

\* C1 as stated: in DYNAMIC_STRIDES mode a call that starts after a
\* non-inlined call with an equal fingerprint has ended well on the miss path
\* runs the executable that call stored, constructs no TraceCtx, adds one to
\* cache_hits and leaves cache_misses alone.  Two indeterminate fingerprints
\* are equal (both None), and such a call misses.
C1_EqualFingerprintHits ==
    (Dynamic /\ Ended /\ last.prior # PyNone) =>
        /\ last.path = "hit_dynamic"
        /\ last.c = last.prior
        /\ last.traced = 0
        /\ last.hits = 1
        /\ last.misses = 0

\* C1, for determinate fingerprints: in DYNAMIC_STRIDES mode a call whose
\* fingerprint is not None and that starts after a non-inlined call with an
\* equal fingerprint has ended well on the miss path is a hit: it runs the
\* executable stored for that fingerprint, constructs no TraceCtx, adds one
\* to cache_hits and leaves cache_misses alone.
C1_DeterminateFingerprintHits ==
    (Dynamic /\ Ended /\ last.prior # PyNone /\ LastKey # PyNone) =>
        /\ last.path = "hit_dynamic"
        /\ last.c = last.prior
        /\ last.traced = 0
        /\ last.hits = 1
        /\ last.misses = 0

\* a hit on the executable an earlier call built for other arguments
C1_Witness ==
    /\ Dynamic /\ Ended /\ last.ok
    /\ last.prior # PyNone /\ LastKey # PyNone
    /\ last.path = "hit_dynamic"
    /\ Payload(last.c).a # last.a
    /\ cs.cache_hits = 1 /\ cs.cache_misses = 1

\* C2: in DYNAMIC_STRIDES mode cs.cache has exactly one entry for each
\* determinate fingerprint with which a non-inlined call has ended well on the
\* miss path, holding the executable stored for it; a call with a determinate
\* fingerprint is a hit if such a call had ended before it started and a miss
\* otherwise; and no step removes an entry.
C2_OneEntryPerFingerprint ==
    /\ [](Dynamic =>
            /\ DOMAIN cs.cache = DOMAIN stored \ {PyNone}
            /\ \A k \in DOMAIN cs.cache : cs.cache[k][1] = stored[k]
            /\ (Ended /\ LastKey # PyNone) =>
                   /\ last.path = "hit_dynamic" <=> last.prior # PyNone
                   /\ last.hits = (IF last.prior # PyNone THEN 1 ELSE 0))
    /\ [][Dynamic => \A k \in DOMAIN cs.cache : k \in DOMAIN cs.cache']_vars

\* shapes [4], [4] and [4,4]: a miss, a hit and a miss; two entries
C2_Witness ==
    /\ Dynamic /\ Ended /\ last.ok /\ stack["t1"] = <<>>
    /\ last.a = 3 /\ last.path = "traced"
    /\ cs.calls = 3 /\ cs.cache_hits = 1 /\ cs.cache_misses = 2
    /\ Cardinality(DOMAIN cs.cache) = 2
    /\ Fingerprint(CallArgs[1]) \in DOMAIN cs.cache

\* C6: None is never a key of cs.cache; for an argument set whose fingerprint
\* is None, cache_put returns False and leaves the cache as it is and
\* cache_get returns (None, None), whatever the cache holds; and in
\* DYNAMIC_STRIDES mode a call with such a fingerprint is a miss that goes to
\* the miss path again (trace acquisition, unless the autograd branch is
\* taken), a new TraceCtx being made when it is traced outside any trace.
C6_NoneNeverStoredOrMatched ==
    /\ PyNone \notin DOMAIN cs.cache
    /\ \A a \in DirectCalls :
           Fingerprint(CallArgs[a]) = PyNone =>
               /\ cache_put(cs.cache, Function(0, a), PyNone,
                            AfterPrefix(CallArgs[a]), CallArgs[a].kwargs)
                      = <<FALSE, cs.cache>>
               /\ cache_get(cs.cache, AfterPrefix(CallArgs[a]), CallArgs[a].kwargs)
                      = <<PyNone, PyNone>>
    /\ (Dynamic /\ Ended /\ LastKey = PyNone) =>
           /\ last.path \in MissPaths
           /\ last.hits = 0 /\ last.misses = 1
           /\ last.put \in {"none", "False"}
           /\ (last.ok /\ last.path \in {"traced", "autograd"}) => last.put = "False"
           /\ ~UseAutograd(LastCall) => last.path # "autograd"
           /\ (last.path = "traced" /\ ~last.active) => last.traced = 1

\* the second of two calls with an ndarray: traced again, nothing cached
C6_Witness ==
    /\ Dynamic /\ Ended /\ last.ok /\ LastKey = PyNone
    /\ last.prior # PyNone
    /\ last.path = "traced" /\ last.traced = 1 /\ last.put = "False"
    /\ cs.calls = 2 /\ cs.cache_misses = 2 /\ cs.cache = <<>>

\* the executable the call `last` found in cs.last_executed, without tracing
FixedHitEnded ==
    /\ last.path = "hit_fixed"
    /\ last.c = last.pre_executed
    /\ last.executed_same
    /\ last.traced = 0
    /\ last.hits = 1 /\ last.misses = 0
    /\ last.tracing = <<Unset, Unset>>

\* C7 as stated: in FIXED mode every call that starts after some call has
\* ended well runs the stored executable, leaves cs.last_executed as it is,
\* constructs no TraceCtx, adds one to cache_hits and leaves the tracing
\* timestamps at -1.
C7_AfterAnySuccessfulCall ==
    (Fixed /\ Ended /\ last.anyok) => FixedHitEnded

\* C7, for calls that are not inlined: in FIXED mode cs.last_executed is set
\* exactly when a call that was not inlined has ended well; every call that
\* starts when it is set runs it, leaves it as it is, constructs no TraceCtx,
\* adds one to cache_hits and leaves the tracing timestamps at -1; a call
\* that starts when it is not set (all calls so far failed or were inlined)
\* goes to the miss path; and once set, cs.last_executed changes only when a
\* call that started before it was set ends well.
C7_OnceExecutableStored ==
    /\ [](Fixed =>
            /\ (first = PyNone) <=> (cs.last_executed = PyNone)
            /\ Ended =>
                   IF last.pre_executed # PyNone
                   THEN FixedHitEnded
                   ELSE /\ last.path \in MissPaths
                        /\ last.hits = 0 /\ last.misses = 1)
    /\ [][(Fixed /\ cs.last_executed # PyNone /\ cs.last_executed' # cs.last_executed) =>
              /\ last' # last
              /\ last'.ok /\ last'.pre_executed = PyNone
              /\ cs.last_executed' = last'.c]_vars

\* a call with a [4,4] keyword value served by the executable built for [4]
C7_Witness ==
    /\ Fixed /\ Ended /\ last.ok
    /\ last.path = "hit_fixed"
    /\ last.a = 3 /\ Payload(last.c).a = 1
    /\ cs.last_executed = last.c
    /\ cs.cache_hits = 1 /\ cs.cache_misses = 1

\* C8: in ALWAYS_TRACE mode cs.cache is empty, cache_hits is 0, cache_misses
\* equals calls, and every call goes to the miss path (the autograd branch or
\* trace acquisition, which builds a new executable when it ends well outside
\* any trace) also when cs.last_executed is set; in FIXED mode cs.cache is
\* empty.
C8_AlwaysTraceNeverCaches ==
    /\ AlwaysTrace =>
           /\ cs.cache = <<>>
           /\ cs.cache_hits = 0
           /\ cs.cache_misses = cs.calls
           /\ Ended =>
                  /\ last.path \in MissPaths
                  /\ last.hits = 0 /\ last.misses = 1
                  /\ (last.ok /\ last.path = "traced") =>
                         /\ last.traced = 1
                         /\ last.c = Function(last.n, last.a)
    /\ Fixed => cs.cache = <<>>

\* the same arguments a second time: traced again, a new executable
C8_Witness ==
    /\ AlwaysTrace /\ Ended /\ last.ok
    /\ last.pre_executed # PyNone
    /\ Payload(last.pre_executed).a = last.a
    /\ last.path = "traced" /\ last.traced = 1
    /\ last.c # last.pre_executed
    /\ cs.calls = 2 /\ cs.cache_misses = 2

\* the trace and the language that the frames 1..i of thread t make active
RECURSIVE ActiveAt(_, _)
ActiveAt(t, i) ==
    IF i = 0 THEN PyNone
    ELSE IF stack[t][i].kind = "_trace" /\ stack[t][i].trace # PyNone
    THEN stack[t][i].trace
    ELSE ActiveAt(t, i - 1)

\* the dispatcher's calls of trace(), the frames above a frame of _fn, set
\* cd.langctx; the others set the language that is active already
LangAt(t, i) ==
    IF \E j \in 2..i : stack[t][j].kind = "_trace" /\ stack[t][j - 1].kind = "_fn"
    THEN cd.langctx
    ELSE AmbientLang

\* C9: at every moment the active trace and the active language of a thread
\* are those of the calls of _trace still in progress, and every such call
\* holds the tokens of what was active before it: one for the language, and
\* one for the trace exactly if it constructed a TraceCtx.  So when a call of
\* _trace exits, by return or by exception, at any depth, what was active
\* before it is active again, and when none is in progress no trace is
\* active and the language is the ambient one.
C9_ContextBalance ==
    \A t \in Threads :
        /\ tracectx[t] = ActiveAt(t, Len(stack[t]))
        /\ langctx[t] = LangAt(t, Len(stack[t]))
        /\ \A i \in 1..Len(stack[t]) :
               stack[t][i].kind = "_trace" =>
                   /\ stack[t][i].langctx_tok = Token(LangAt(t, i - 1))
                   /\ (stack[t][i].tracectx_tok # PyNone) <=> (stack[t][i].trace # PyNone)
                   /\ stack[t][i].tracectx_tok # PyNone =>
                          stack[t][i].tracectx_tok = Token(ActiveAt(t, i - 1))
        /\ (\A i \in 1..Len(stack[t]) : stack[t][i].kind # "_trace") =>
               /\ tracectx[t] = PyNone
               /\ langctx[t] = AmbientLang

\* a call of the compiled entity made inside a direct call of trace() failed
\* while tracing, and every call of _trace has exited
C9_Witness ==
    /\ stack["t1"] = <<>>
    /\ Ended /\ last.active /\ last.path = "tracing" /\ ~last.ok
    /\ events = 3
    /\ tracectx["t1"] = PyNone /\ langctx["t1"] = AmbientLang

\* C10 as stated: a call made while a trace is active is never served from
\* cs.last_executed in FIXED mode nor from cs.cache in DYNAMIC_STRIDES mode.
C10_InliningFirst ==
    (Ended /\ last.active) => last.path \notin HitPaths

\* C10, in the order of the code: the cache lookup comes first.  A call made
\* while a trace is active is served from cs.last_executed in FIXED mode when
\* it is set, and from cs.cache in DYNAMIC_STRIDES mode when its fingerprint
\* is determinate and has an entry, without any tracing; it is inlined only
\* when the lookup misses, the autograd branch is not taken and no transform
\* is registered.
C10_LookupFirst ==
    (Ended /\ last.active) =>
        /\ (Fixed /\ last.pre_executed # PyNone) => last.path = "hit_fixed"
        /\ (Dynamic /\ LastKey # PyNone /\ last.prior # PyNone) =>
               last.path = "hit_dynamic"
        /\ last.path \in HitPaths =>
               /\ last.traced = 0
               /\ last.hits = 1 /\ last.misses = 0
        /\ last.path = "inlined" =>
               /\ ~(Fixed /\ last.pre_executed # PyNone)
               /\ ~(Dynamic /\ LastKey # PyNone /\ last.prior # PyNone)
               /\ ~UseAutograd(LastCall)
               /\ transforms = <<>>
               /\ last.hits = 0 /\ last.misses = 1
        /\ (last.ok /\ last.path \notin HitPaths \cup {"autograd"}) =>
               last.path = "inlined"

\* inside a direct call of trace(), a call served from the cache
C10_Witness ==
    /\ Ended /\ last.active /\ last.ok
    /\ last.path = "hit_dynamic"
    /\ stack["t1"] # <<>> /\ tracectx["t1"] # PyNone
    /\ cs.cache_hits = 1

\* the call `last` reached the check of line 650: no hit, not the autograd
\* branch, and neither the lookup nor trace() raised
ReachedCheck == last.path \notin HitPaths \cup {"autograd", "lookup", "tracing"}

\* the call `last` ran no call of the compiled entity inside it
NothingNested == cs.calls = last.n

\* the step with which a call on the given path ends leaves cs.cache,
\* cs.last_executed and cs.last_traces as they are
EndsStoringNothing(path) ==
    (last' # last /\ last'.path = path) =>
        /\ cs'.cache = cs.cache
        /\ cs'.last_executed = cs.last_executed
        /\ cs'.last_traces = cs.last_traces
        /\ ntraces' = ntraces

\* C11: a call that misses, does not take the autograd branch and reaches
\* trace acquisition while a trace is active, no transforms being registered,
\* returns what trace() returned, the proxied result of the callable and not a
\* TraceCtx, as soon as trace() has returned: it constructs no TraceCtx,
\* builds no executable (no lowering, no _execute_trace), puts nothing in the
\* cache, and leaves cs.cache, cs.last_executed and cs.last_traces as they
\* were when it started.
C11_InlinedReturnsImmediately ==
    /\ [](/\ (Ended /\ last.active /\ transforms = <<>> /\ ReachedCheck) =>
               last.path = "inlined"
          /\ (Ended /\ last.path = "inlined") =>
               /\ last.active /\ last.ok
               /\ last.c = PyNone /\ last.put = "none" /\ last.traced = 0
               /\ NothingNested =>
                      last.cache_same /\ last.executed_same /\ last.traces_same)
    /\ [][/\ EndsStoringNothing("inlined")
          /\ (last' # last /\ last'.path = "inlined") => ret["t1"] = Result]_vars

\* a call inlined into a direct call of trace(), after a call that was traced
\* and cached: what that call stored is still there
C11_Witness ==
    /\ Ended /\ last.path = "inlined" /\ last.ok /\ NothingNested
    /\ transforms = <<>>
    /\ last.pre_executed # PyNone
    /\ cs.last_executed = last.pre_executed
    /\ cs.last_traces # PyNone
    /\ cs.cache_misses = 2
    /\ stack["t1"] # <<>> /\ tracectx["t1"] # PyNone

\* C12: with transforms registered, a call that reaches the check after trace
\* acquisition while a trace is active fails with NotImplementedError: it
\* builds no executable and leaves cs.cache, cs.last_executed and
\* cs.last_traces as they were; and the error is raised only then: never
\* with no transforms, never with no active trace.
C12_InlinedTransformsUnsupported ==
    /\ [](/\ (Ended /\ last.active /\ transforms # <<>> /\ ReachedCheck) =>
               last.path = "unsupported"
          /\ (Ended /\ last.path = "unsupported") =>
               /\ last.active /\ transforms # <<>>
               /\ ~last.ok
               /\ last.c = PyNone /\ last.put = "none" /\ last.traced = 0
               /\ NothingNested =>
                      last.cache_same /\ last.executed_same /\ last.traces_same)
    /\ [][EndsStoringNothing("unsupported")]_vars

\* the error inside a direct call of trace(), after a call that was traced:
\* what that call stored is still there
C12_Witness ==
    /\ Ended /\ last.path = "unsupported" /\ ~last.ok /\ NothingNested
    /\ last.pre_executed # PyNone
    /\ cs.last_executed = last.pre_executed
    /\ cs.last_traces # PyNone
    /\ exc["t1"] /\ tracectx["t1"] # PyNone

\* a timestamp was written by the call `last'`, or during it: the clock
\* advances when a call starts, and call number n starts at time n
Since(stamp) == stamp >= last'.n

\* C15 as stated: when a call ends, if it was a hit the tracing timestamps
\* are -1 and the execution start and stop timestamps were set by it; if it
\* was a miss the tracing start and stop timestamps were set by it; and in
\* either case the cache-phase start and stop timestamps were set by it.
C15_StampsAfterEveryCall ==
    [][(last' # last) =>
          /\ last'.path \in HitPaths =>
                 /\ cs'.last_trace_tracing_start = Unset
                 /\ cs'.last_trace_tracing_stop = Unset
                 /\ Since(cs'.last_trace_host_execution_start)
                 /\ Since(cs'.last_trace_host_execution_stop)
          /\ last'.path \in MissPaths =>
                 /\ Since(cs'.last_trace_tracing_start)
                 /\ Since(cs'.last_trace_tracing_stop)
          /\ Since(cs'.last_trace_cache_start)
          /\ Since(cs'.last_trace_cache_stop)]_vars

\* the first call ever, a miss on the autograd branch, has ended well and the
\* tracing timestamps are still -1
C15_Witness ==
    /\ Ended /\ last.ok /\ last.path = "autograd" /\ last.misses = 1
    /\ cs.calls = 1 /\ stack["t1"] = <<>>
    /\ cs.last_trace_tracing_start = Unset
    /\ cs.last_trace_tracing_stop = Unset
    /\ cs.last_trace_cache_stop = 1

\* C19 as stated: every call adds one to calls and one to exactly one of
\* cache_hits and cache_misses, before anything that can fail, so that
\* calls = cache_hits + cache_misses at every moment and after every call,
\* whether it returns or raises, inlined or not, on the autograd branch or
\* not; and no counter ever decreases.
C19_CountersBalanced ==
    /\ [](cs.calls = cs.cache_hits + cs.cache_misses)
    /\ [][(last' # last) =>
              /\ last'.calls = 1
              /\ last'.hits + last'.misses = 1
              /\ last'.hits \in {0, 1}]_vars
    /\ [][/\ cs'.calls >= cs.calls
          /\ cs'.cache_hits >= cs.cache_hits
          /\ cs'.cache_misses >= cs.cache_misses]_vars

\* the first call ever raised in cache_get: one call, no hit and no miss
C19_Witness ==
    /\ Ended /\ ~last.ok /\ last.path = "lookup"
    /\ stack["t1"] = <<>>
    /\ cs.calls = 1 /\ cs.cache_hits = 0 /\ cs.cache_misses = 0
    /\ cs.last_trace_cache_start = 1 /\ cs.last_trace_cache_stop = Unset

\* the argument sets a and b differ in the implicit parameters and in
\* nothing else
DifferOnlyInPrefix(a, b) ==
    /\ a # b
    /\ AfterPrefix(CallArgs[a]) = AfterPrefix(CallArgs[b])
    /\ CallArgs[a].kwargs = CallArgs[b].kwargs

\* the call that built the executable c
BuiltFor(c) == Payload(c).a

\* in DYNAMIC_STRIDES mode: argument sets that differ only in the implicit
\* parameters have equal fingerprints; every key of cs.cache is a fingerprint
\* of arguments after the implicit parameters; a call that ends well on the
\* miss path outside any trace, on the autograd branch too, leaves its
\* executable under its fingerprint when that is determinate; a hit runs an
\* executable built for arguments with the same fingerprint; and an
\* executable is invoked with all the arguments of the call
C20_KeysSkipPrefix ==
    Dynamic =>
        /\ \A a, b \in DirectCalls :
               DifferOnlyInPrefix(a, b) =>
                   Fingerprint(CallArgs[a]) = Fingerprint(CallArgs[b])
        /\ \A k \in DOMAIN cs.cache :
               \E a \in DirectCalls :
                   /\ k = Fingerprint(CallArgs[a])
                   /\ Len(Payload(k)) = Len(AfterPrefix(CallArgs[a]))
                                          + Len(CallArgs[a].kwargs)
        /\ (Ended /\ last.ok /\ last.path \in {"traced", "autograd"} /\ LastKey # PyNone) =>
               /\ last.put = "True"
               /\ LastKey \in DOMAIN cs.cache
               /\ cs.cache[LastKey][1] = last.c
        /\ (Ended /\ last.path = "hit_dynamic") =>
               Fingerprint(CallArgs[BuiltFor(last.c)]) = LastKey
        /\ (Ended /\ last.c # PyNone) => last.ran = LastCall

\* C20 as stated: in DYNAMIC_STRIDES mode lookup and insertions use the
\* fingerprint of the arguments after the implicit parameters, executables
\* are invoked with all the arguments, and a call that differs only in the
\* implicit parameters from the call that last ended well with its
\* fingerprint (on the miss path, outside any trace) is a hit on that call's
\* executable.
C20_PrefixOnlyDifferenceHits ==
    /\ C20_KeysSkipPrefix
    /\ (Dynamic /\ Ended /\ last.prior # PyNone
          /\ DifferOnlyInPrefix(BuiltFor(last.prior), last.a)) =>
           /\ last.path = "hit_dynamic"
           /\ last.c = last.prior

\* C20, for determinate fingerprints: in DYNAMIC_STRIDES mode lookup and
\* insertions use the fingerprint of the arguments after the implicit
\* parameters, executables are invoked with all the arguments, and a call
\* whose fingerprint is not None and that differs only in the implicit
\* parameters from the call that last ended well with its fingerprint (on
\* the miss path, outside any trace) is a hit on that call's executable.
C20_PrefixOnlyDifferenceHitsIfDeterminate ==
    /\ C20_KeysSkipPrefix
    /\ (Dynamic /\ Ended /\ last.prior # PyNone /\ LastKey # PyNone
          /\ DifferOnlyInPrefix(BuiltFor(last.prior), last.a)) =>
           /\ last.path = "hit_dynamic"
           /\ last.c = last.prior
           /\ last.ran = LastCall

\* the module called with a [4,4] implicit parameter is served by the
\* executable built when the parameter was [4], and runs it with the [4,4]
\* parameter
C20_Witness ==
    /\ Dynamic /\ cd.num_constant_args = 1
    /\ Ended /\ last.ok /\ last.path = "hit_dynamic"
    /\ last.a = 4 /\ BuiltFor(last.c) = 3
    /\ DifferOnlyInPrefix(3, 4)
    /\ last.ran.args = <<W44>>
    /\ Cardinality(DOMAIN cs.cache) = 1

\* the sub-key a fingerprint holds for the i-th item of an argument set:
\* the positional arguments first, then the keyword arguments
SubkeyAt(key, i) == Payload(key)[i]
\* the i-th item of an argument set is a keyword argument
IsKeyword(call, i) == i > Len(call.args)
\* the kind of the i-th positional argument: its Python type
KindAt(call, i) == TypeOf(call.args[i])

\* both fingerprints have been computed and are determinate
BothDeterminate == BothKeys /\ ra[2] # PyNone /\ rb[2] # PyNone

\* the sub-key of a keyword argument equals that of no positional argument
KeywordSubkeysApart ==
    BothDeterminate =>
        \A i \in 1..Len(Payload(ra[2])), j \in 1..Len(Payload(rb[2])) :
            (IsKeyword(ka, i) /\ ~IsKeyword(kb, j)) =>
                SubkeyAt(ra[2], i) # SubkeyAt(rb[2], j)

\* positional arguments of different kinds, a list and a tuple counting as
\* one kind, have different sub-keys
KindsApartUpToSequences ==
    BothDeterminate =>
        \A i \in 1..Len(ka.args), j \in 1..Len(kb.args) :
            (/\ KindAt(ka, i) # KindAt(kb, j)
             /\ {KindAt(ka, i), KindAt(kb, j)} # {"list", "tuple"}) =>
                SubkeyAt(ra[2], i) # SubkeyAt(rb[2], j)

\* C18 as stated: two positional arguments of different kinds (a list and a
\* tuple, a tensor and a non-tensor, an int and a float, ...) never have
\* equal sub-keys, and the sub-key of a keyword argument never equals the
\* sub-key of a positional argument.
C18_SubkeysEncodeKind ==
    /\ KeywordSubkeysApart
    /\ BothDeterminate =>
           \A i \in 1..Len(ka.args), j \in 1..Len(kb.args) :
               KindAt(ka, i) # KindAt(kb, j) =>
                   SubkeyAt(ra[2], i) # SubkeyAt(rb[2], j)

\* a list and a tuple with the same elements, as second argument: the two
\* fingerprints are equal
C18_Witness ==
    /\ ka = [args |-> <<T0, Nest(PyInt(1), 1, "list")>>, kwargs |-> <<>>]
    /\ kb = [args |-> <<T0, Nest(PyInt(1), 1, "tuple")>>, kwargs |-> <<>>]
    /\ BothDeterminate
    /\ SubkeyAt(ra[2], 2) = SubkeyAt(rb[2], 2)
    /\ ra[2] = rb[2]

(***************************************************************************)
(* The adapter: extra returns and the state they feed back.                *)
(***************************************************************************)
\* the adapter's record
Tom == Payload(tom)

\* the implicit parameter values the adapter holds now
HeldValues == heap[Tom._additional_param_values]

\* no call of _fn started after the adapter's call that ended last did: no
\* other call of the adapter ran inside it or after it
NothingSinceModuleCall == cs.calls = lastm.n

\* the adapter's call that ended last got a value back from _fn
ForwardReturned == lastm.n > 0 /\ lastm.at # "forward"

\* C13: when the adapter declares n > 0 extra-return names and _fn returns a
\* number of extra values other than n, the call ends with an error, and the
\* model's attributes and the implicit-parameter slots are what they were
\* when the call started.
C13_MismatchFailsUntouched ==
    (/\ TypeOf(tom) = "ThunderOptimizedModule"
     /\ ForwardReturned
     /\ Tom._additional_return_names # <<>>
     /\ lastm.returned - 1 # Len(Tom._additional_return_names)) =>
        /\ ~lastm.ok
        /\ NothingSinceModuleCall =>
               /\ model = lastm.pre_model
               /\ HeldValues = lastm.pre_values

\* two names are declared and _fn returned its result with three extra
\* values: the call failed at the assert
C13_Witness ==
    /\ TypeOf(tom) = "ThunderOptimizedModule"
    /\ Len(Tom._additional_return_names) = 2
    /\ lastm.returned = 4
    /\ lastm.at = "assert"
    /\ ~lastm.ok
    /\ NothingSinceModuleCall
    /\ HeldValues = lastm.pre_values

\* the frames of thread t1 in which the adapter waits for _fn
ModuleFrames == {i \in 1..Len(stack["t1"]) : stack["t1"][i].kind = "module"}

\* every call of the adapter hands _fn the values it held when the call
\* started, then the explicit arguments
PrependsHeldValues ==
    \A i \in ModuleFrames :
        LET f == stack["t1"][i]
        IN  /\ CallArgs[f.a].args = f.pre_values \o ModuleExplicit[f.e].args
            /\ CallArgs[f.a].kwargs = ModuleExplicit[f.e].kwargs
            /\ i < Len(stack["t1"]) =>
                   /\ stack["t1"][i + 1].kind = "_fn"
                   /\ stack["t1"][i + 1].a = f.a
            /\ (i = Len(stack["t1"]) /\ last.n >= f.n) => last.a = f.a

\* the adapter's call that ended last succeeded, with extra-return names
FedBack ==
    /\ TypeOf(tom) = "ThunderOptimizedModule"
    /\ lastm.ok
    /\ Tom._additional_return_names # <<>>
    /\ NothingSinceModuleCall

\* C14: every call of the adapter invokes _fn with the implicit parameter
\* values it holds prepended to the explicit arguments; after a successful
\* call with extra-return names the i-th extra value is the leaf attribute at
\* the dotted path of the i-th name and fills the slot whose index is that
\* of the name in additional_param_names, and every other slot is unchanged.
C14_StateFeedback ==
    /\ PrependsHeldValues
    /\ FedBack =>
           /\ \A i \in 1..Len(Tom._additional_return_names) :
                  /\ getattr_path(model, split(Tom._additional_return_names[i])) = Extra(i)
                  /\ \A j \in 1..Len(cd.additional_param_names) :
                         cd.additional_param_names[j] = Tom._additional_return_names[i] =>
                             HeldValues[j] = Extra(i)
           /\ Len(HeldValues) = Len(lastm.pre_values)
           /\ \A j \in 1..Len(cd.additional_param_names) :
                  (\A i \in 1..Len(Tom._additional_return_names) :
                       cd.additional_param_names[j] # Tom._additional_return_names[i]) =>
                      HeldValues[j] = lastm.pre_values[j]

\* a second call of the adapter is under way after one that fed "s.b" and
\* "w" back: _fn gets the two new values in the slots of "w" and "s.b"
C14_Witness ==
    /\ FedBack
    /\ Tom._additional_return_names = <<ParamNames[2], ParamNames[1]>>
    /\ HeldValues = <<Extra(2), Extra(1)>>
    /\ \E i \in ModuleFrames :
           /\ i < Len(stack["t1"])
           /\ SubSeq(CallArgs[stack["t1"][i + 1].a].args, 1, 2) = <<Extra(2), Extra(1)>>

\* C16 as stated: no call of the compiled entity changes a field of its
\* CompileData or the contents of the list additional_param_values.
C16_CompileDataImmutable ==
    [][/\ cd' = cd
       /\ heap'[cd'.additional_param_values] = heap[cd.additional_param_values]]_vars

\* a call of the adapter fed a value back: the list cd.additional_param_values
\* refers to no longer holds what it held when cd was created
C16_Witness ==
    /\ TypeOf(tom) = "ThunderOptimizedModule"
    /\ lastm.ok
    /\ Tom._additional_return_names # <<>>
    /\ Tom._additional_param_values = cd.additional_param_values
    /\ heap[cd.additional_param_values] # <<W4, W44>>

(***************************************************************************)
(* Proxies bound into a new trace.                                         *)
(***************************************************************************)
\* _unpack_inputs has returned and _trace has stored the arguments
Bound == unpack.pc = "done"

\* the values, collections looked into, that the new trace's arguments hold
PlacedValues == FlatCall(Payload(unpack.args), Payload(unpack.kwargs))

\* the identities of the proxies that existed before the call
OldIds == {Payload(p).id : p \in OldProxies}

IsOldProxy(v) == TypeOf(v) = "Proxy" /\ Payload(v).id \in OldIds

\* no proxy object that existed before is among the new trace's arguments
NoOriginalPlaced == \A i \in 1..Len(PlacedValues) : ~IsOldProxy(PlacedValues[i])

\* every positional or keyword argument that was a proxy is bound to a proxy
\* of the same kind that is another object and has the parameter's name
NamedCopies ==
    /\ \A i \in 1..Len(unpack.si.args) :
           LET x == unpack.si.args[i][2]
               y == unpack.proxyargs[i]
           IN  TypeOf(x) = "Proxy" =>
                   /\ TypeOf(y) = "Proxy"
                   /\ Payload(y).id # Payload(x).id
                   /\ Payload(y).name = unpack.si.args[i][1]
                   /\ Payload(y).of = Payload(x).of
    /\ \A i \in 1..Len(unpack.si.kwargs) :
           LET x == unpack.si.kwargs[i][2]
               y == unpack.proxykwargs[i][2]
           IN  TypeOf(x) = "Proxy" =>
                   /\ TypeOf(y) = "Proxy"
                   /\ Payload(y).id # Payload(x).id
                   /\ Payload(y).name = unpack.si.kwargs[i][1]
                   /\ Payload(y).of = Payload(x).of

\* the values of the call, collections looked into
GivenValues ==
    FlatCall([i \in 1..Len(unpack.si.args) |-> unpack.si.args[i][2]]
                 \o (IF TypeOf(unpack.si.varargs) = "NoneType"
                     THEN <<>> ELSE Payload(Payload(unpack.si.varargs).x)),
             unpack.si.kwargs)

\* with rename_proxies false every proxy of the call is placed as it is, in
\* its position, and its name is one of the new trace's names
KeptWhenNotRenaming ==
    /\ Len(PlacedValues) = Len(GivenValues)
    /\ \A i \in 1..Len(GivenValues) :
           TypeOf(GivenValues[i]) = "Proxy" =>
               /\ PlacedValues[i] = GivenValues[i]
               /\ Payload(GivenValues[i]).name \in unpack.st.names

\* C17 as stated: whenever _unpack_inputs binds an argument that is already
\* a Proxy into a new trace, the value placed in the new trace's arguments
\* is a renamed copy, not the original proxy object.
C17_NeverSharedUnmodified ==
    Bound => NoOriginalPlaced /\ NamedCopies

\* C17: with rename_proxies true, whenever _unpack_inputs binds an argument
\* that is already a Proxy into a new trace, the value placed in the new
\* trace's arguments is a renamed copy, not the original proxy object; with
\* rename_proxies false the original proxy object is placed and its name is
\* registered in the new trace.
C17_RenamedCopyWhenRenaming ==
    Bound =>
        IF unpack.rename_proxies
        THEN NoOriginalPlaced /\ NamedCopies
        ELSE KeptWhenNotRenaming

\* rename_proxies is true and the proxy t0 was passed as parameter a, and
\* again inside a collection: the trace's arguments hold copies
C17_Witness ==
    /\ Bound
    /\ unpack.rename_proxies
    /\ unpack.si.args[1][2] = P2
    /\ TypeOf(unpack.si.varargs) = "varargs"
    /\ unpack.proxyargs[1] = Proxy(3, "a", "Tensor")
    /\ \E i \in 1..Len(GivenValues) : IsOldProxy(GivenValues[i]) /\ i > 2
    /\ NoOriginalPlaced

(***************************************************************************)
(* The autograd branch.                                                    *)
(***************************************************************************)
\* autograd support is on and a tensor among the flattened arguments of
\* CallArgs[a], the implicit parameters included, requires grad
AutogradWanted(a) ==
    /\ ~cd.disable_torch_autograd_support
    /\ LET flat == FlatCall(CallArgs[a].args, CallArgs[a].kwargs)
       IN  \E i \in 1..Len(flat) : IsTensor(flat[i]) /\ Payload(flat[i]).requires_grad

\* the call that ended last missed
LastMissed == last.n > 0 /\ last.misses = 1

\* a call is in the autograd branch only as the innermost frame of its
\* thread, and until its executable has returned nothing is stored
AutogradStoresLate ==
    \A i \in 1..Len(stack["t1"]) :
        LET f == stack["t1"][i]
        IN  (f.kind = "_fn" /\ f.pc = "autograd") =>
                /\ i = Len(stack["t1"])
                /\ f.c = Function(f.n, f.a)
                /\ cs.last_executed = f.pre.last_executed
                /\ cs.cache = f.pre.cache
                /\ cs.last_traces = f.pre.last_traces
                /\ ntraces = f.pre.ntraces

\* a miss takes the autograd branch exactly when autograd is wanted, a trace
\* being active or not, and the branch constructs no trace and leaves
\* cs.last_traces alone; when its executable raises nothing is stored
AutogradBranch ==
    /\ AutogradStoresLate
    /\ LastMissed => (last.path = "autograd" <=> AutogradWanted(last.a))
    /\ last.path = "autograd" =>
           /\ LastMissed
           /\ last.traced = 0
           /\ last.traces_same
           /\ last.c = Function(last.n, last.a)
           /\ last.ran = ExecArgs(CallArgs[last.a])
           /\ ~last.ok => last.cache_same /\ last.executed_same /\ last.put = "none"
           /\ (last.ok /\ NothingNested) => cs.last_executed = last.c
           /\ (last.ok /\ cd.cache_mode # "DYNAMIC_STRIDES") =>
                  last.cache_same /\ last.put = "none"

\* the call that ended last took the autograd branch in DYNAMIC_STRIDES mode
\* and its executable returned
AutogradStored ==
    /\ last.path = "autograd"
    /\ last.ok
    /\ cd.cache_mode = "DYNAMIC_STRIDES"
    /\ NothingNested

\* the cache holds (executable, None) under the fingerprint of the call
StoredWithoutTraces ==
    /\ Fingerprint(CallArgs[last.a]) \in DOMAIN cs.cache
    /\ cs.cache[Fingerprint(CallArgs[last.a])] = <<last.c, PyNone>>

\* C21 as stated: on a miss with autograd wanted the dispatcher builds an
\* executable with thunder_backward, runs it, and only after it returns sets
\* cs.last_executed and, only in DYNAMIC_STRIDES mode, stores (executable,
\* None) under the fingerprint of the arguments after the prefix; it calls no
\* trace(), leaves cs.last_traces unchanged, and does so with a trace active
\* too.
C21_AutogradBranchStores ==
    /\ AutogradBranch
    /\ AutogradStored => StoredWithoutTraces

\* C21: the same, the store of DYNAMIC_STRIDES mode happening when the
\* fingerprint is determinate; when it is None the cache is left as it was.
C21_AutogradBranchStoresIfDeterminate ==
    /\ AutogradBranch
    /\ AutogradStored =>
           IF Fingerprint(CallArgs[last.a]) # PyNone
           THEN StoredWithoutTraces /\ last.put = "True"
           ELSE last.cache_same /\ last.put = "False"

\* with a trace active and transforms registered, a call whose first argument
\* requires grad took the autograd branch in DYNAMIC_STRIDES mode and stored
\* its executable without traces
C21_Witness ==
    /\ AutogradStored
    /\ last.active
    /\ transforms # <<>>
    /\ last.a = 6
    /\ StoredWithoutTraces
    /\ cs.last_traces = PyNone

(***************************************************************************)
(* The two branches of _trace.                                             *)
(***************************************************************************)
\* the frames of _trace on the stack of thread t
TraceFrames(t) == {i \in 1..Len(stack[t]) : stack[t][i].kind = "_trace"}

\* the traces that the frames below frame i constructed
TracesBelow(t, i) ==
    {stack[t][j].trace : j \in {k \in TraceFrames(t) : k < i /\ stack[t][k].trace # PyNone}}

\* the call of _trace in frame i found a trace active and was asked to inline
Inlines(t, i) == ActiveAt(t, i - 1) # PyNone /\ stack[t][i].inline_trace

\* while the callable of a call of _trace runs: an inlining call has made no
\* TraceCtx, holds no token for the active trace, left the active trace as it
\* was and handed the callable the arguments it got; any other call made a
\* TraceCtx that no call below it made, handed the callable the translated
\* arguments, and its trace, not the one that was active before, is active
\* whenever its callable is the code that runs
TraceBranches ==
    \A t \in Threads : \A i \in TraceFrames(t) :
        LET f == stack[t][i]
        IN  /\ tracectx[t] = ActiveAt(t, Len(stack[t]))
            /\ IF Inlines(t, i)
               THEN /\ f.trace = PyNone
                    /\ f.tracectx_tok = PyNone
                    /\ f.fn_args = "args"
                    /\ i = Len(stack[t]) => tracectx[t] = ActiveAt(t, i - 1)
               ELSE /\ TypeOf(f.trace) = "TraceCtx"
                    /\ f.trace \notin TracesBelow(t, i)
                    /\ f.tracectx_tok = Token(ActiveAt(t, i - 1))
                    /\ f.fn_args = "proxyargs"
                    /\ i = Len(stack[t]) =>
                           /\ tracectx[t] = f.trace
                           /\ tracectx[t] # ActiveAt(t, i - 1)

\* a call of _trace returns in this step of thread t
TraceReturns(t) ==
    /\ stack[t] # <<>>
    /\ Top(t).kind = "_trace"
    /\ ~exc[t]
    /\ events' = events
    /\ stack'[t] = Pop(t)

\* when a call of _trace returns, it returns the callable's result if it
\* inlined and its own trace otherwise, and the trace that was active when it
\* was called is active again
TraceReturnsBranch ==
    \A t \in Threads :
        TraceReturns(t) =>
            /\ ret'[t] = IF Inlines(t, Len(stack[t])) THEN Result ELSE Top(t).trace
            /\ tracectx'[t] = ActiveAt(t, Len(stack[t]) - 1)
            /\ Inlines(t, Len(stack[t])) => ntraces' = ntraces

\* C22: if a trace is active and inline_trace is True, _trace creates and
\* activates no TraceCtx, calls the callable with the original arguments and
\* returns its result; otherwise it creates a new TraceCtx that is the active
\* trace while the callable runs and returns that trace, and a trace that
\* was active outside is not active during the inner tracing and is active
\* again afterwards.
C22_TraceBuilderBranch ==
    /\ []TraceBranches
    /\ [][TraceReturnsBranch]_vars

\* inside a trace, a direct call of trace(inline_trace=False) runs its
\* callable under a trace of its own, and a call of trace(inline_trace=True)
\* inside that one inlines
C22_Witness ==
    /\ Len(stack["t1"]) = 3
    /\ \A i \in 1..3 : stack["t1"][i].kind = "_trace"
    /\ ~stack["t1"][2].inline_trace
    /\ stack["t1"][2].trace # PyNone
    /\ stack["t1"][2].trace # stack["t1"][1].trace
    /\ Inlines("t1", 3)
    /\ tracectx["t1"] = stack["t1"][2].trace

(***************************************************************************)
(* Failures on the miss path.                                              *)
(***************************************************************************)
\* the callable raised while it was traced ("tracing"), or a transform, the
\* lowering pipeline or the first execution raised ("traced")
FailedMissPaths == {"tracing", "traced"}

\* the call that ended last failed on the trace path of a miss
FailedMiss == Ended /\ ~last.ok /\ last.path \in FailedMissPaths

\* such a call counted one call and one miss, put nothing in the cache, and,
\* when the callable made no call of the compiled entity itself, left
\* cs.cache, cs.last_executed and cs.last_traces as it found them
FailedMissStoresNothing ==
    FailedMiss =>
        /\ last.calls = 1 /\ last.misses = 1 /\ last.hits = 0
        /\ last.put = "none"
        /\ last.c = PyNone
        /\ NothingNested =>
               /\ last.cache_same
               /\ last.executed_same
               /\ last.traces_same

\* the step that ends such a call hands the exception to the caller, the
\* trace and the language that were active at the call being active again
FailedMissPropagates ==
    \A t \in {"t1"} :
        (last' # last /\ ~last'.ok /\ last'.path \in FailedMissPaths) =>
            /\ stack'[t] = Pop(t)
            /\ exc'[t] = (Pop(t) # <<>>)
            /\ tracectx'[t] = ActiveAt(t, Len(stack[t]) - 1)
            /\ langctx'[t] = LangAt(t, Len(stack[t]) - 1)
            /\ tracectx'[t] # PyNone <=> last'.active

\* a call starts in this step with the arguments of the call that ended last
RetryStarts(t) ==
    /\ cs'.calls = cs.calls + 1
    /\ \E i \in (Len(stack[t]) + 1)..Len(stack'[t]) :
           /\ stack'[t][i].kind = "_fn"
           /\ stack'[t][i].a = last.a

\* the call that follows a failed miss with the same arguments is a miss
RetryMisses ==
    \A t \in {"t1"} :
        (FailedMiss /\ NothingNested /\ RetryStarts(t)) =>
            /\ cs'.cache_misses = cs.cache_misses + 1
            /\ cs'.cache_hits = cs.cache_hits

\* C23: if the callable raises while it is traced, or a transform, the
\* lowering pipeline or the first execution of the new executable raises,
\* the exception goes to the caller after the contexts are unwound, cs.cache,
\* cs.last_executed and cs.last_traces are what they were before the call,
\* and the next call with the same arguments is a miss again.  A call of the
\* compiled entity that the callable made while it was traced is a call of
\* its own: what it stored is not counted to the call that failed.
C23_FailedMissStoresNothing ==
    /\ []FailedMissStoresNothing
    /\ [][FailedMissPropagates /\ RetryMisses]_vars

\* in FIXED mode the first execution failed, and the call is being made
\* again with the same arguments: it missed, and traces once more
C23_Witness ==
    /\ Fixed
    /\ FailedMiss /\ last.path = "traced" /\ last.n = 1
    /\ cs.last_executed = PyNone /\ cs.last_traces = PyNone
    /\ Len(stack["t1"]) = 2
    /\ stack["t1"][1].kind = "_fn"
    /\ stack["t1"][1].a = last.a
    /\ stack["t1"][1].n = 2
    /\ stack["t1"][1].misses = 1
    /\ cs.cache_misses = 2 /\ cs.cache_hits = 0


(***************************************************************************)
(* C24: the passes of a traced miss and the traces it records              *)
(***************************************************************************)
\* the passes a traced miss runs, in the order the claim gives
Passes == transforms \o <<"transform_for_execution">> \o post_optimization_transforms

\* the trace pass i receives when every pass receives what the pass before
\* it returned, the first the trace acquired by call n
PassInput(n, i) == TraceObj("call", n, [j \in 1..(i - 1) |-> <<Passes[j], 2>>])

\* the k-th trace of the sequence pass i returns
PassTrace(n, i, k) == TraceObj("call", n, Append(Payload(PassInput(n, i)).stage, <<Passes[i], k>>))

\* the acquired trace, then the sequence of every pass in order
ExpectedTraces(n) ==
    [m \in 1..(1 + 2 * Len(Passes)) |->
        IF m = 1 THEN PassInput(n, 1) ELSE PassTrace(n, m \div 2, (m % 2) + 1)]

\* the step with which a call ends traced, lowered and executed
TracedMissEnds == last' # last /\ last'.path = "traced" /\ last'.ok

\* the cache holds the executable and the recorded traces under the
\* fingerprint of the call that ended
StoredWithTraces ==
    /\ LastKey \in DOMAIN cs.cache
    /\ cs.cache[LastKey] = <<last.c, cs.last_traces>>

\* C24 as stated: on a non-inlined, non-autograd miss the transforms run in
\* list order, each on the trace the previous one returned, the lowering
\* pipeline on the last transform's output, the post-optimization transforms
\* in order on the lowered trace; cs.last_traces is then the acquired trace
\* followed by every pass's sequence in that order, and in DYNAMIC_STRIDES
\* mode the cache holds that sequence with the executable
C24_TracesRecordedAndStored ==
    [][TracedMissEnds =>
          /\ cs'.last_traces = PyList(ExpectedTraces(last'.n))
          /\ cs'.last_executed = last'.c
          /\ Dynamic => StoredWithTraces']_vars

\* C24: as above, the cache holding the sequence in DYNAMIC_STRIDES mode
\* when the fingerprint of the call is determinate; when it is None nothing
\* is stored
C24_TracesRecordedAndStoredIfDeterminate ==
    [][TracedMissEnds =>
          /\ cs'.last_traces = PyList(ExpectedTraces(last'.n))
          /\ cs'.last_executed = last'.c
          /\ (Dynamic /\ LastKey' # PyNone) => StoredWithTraces'
          /\ (Dynamic /\ LastKey' = PyNone) => cs'.cache = cs.cache]_vars

\* a traced miss with two transforms and two post-optimization transforms
\* ended in DYNAMIC_STRIDES mode: eleven traces are recorded and stored
C24_Witness ==
    /\ Ended /\ last.path = "traced" /\ last.ok /\ NothingNested
    /\ Dynamic
    /\ Len(transforms) = 2 /\ Len(post_optimization_transforms) = 2
    /\ Len(Payload(cs.last_traces)) = 11
    /\ Payload(cs.last_traces)[5] = PassInput(last.n, 3)
    /\ StoredWithTraces


(***************************************************************************)
(* C25: a sealed trace returns no unresolved future                        *)
(***************************************************************************)
\* a FutureTensorProxy is somewhere in the (nested) value
RECURSIVE HasFuture(_)
HasFuture(x) ==
    IF is_collection(x)
    THEN \E i \in 1..Len(Payload(x)) : HasFuture(Payload(x)[i])
    ELSE IsFuture(x)

\* _trace has returned a trace that ends with a return statement
Sealed == seal.pc = "done" /\ seal.include_return_statement

\* where the return operation is in the trace
ReturnAt == CHOOSE k \in 1..Len(seal.ops) : seal.ops[k].sym = "python_return"

\* y is x with every future replaced by what a wait for it, recorded before
\* the return operation, returned
RECURSIVE Resolves(_, _)
Resolves(x, y) ==
    IF is_collection(x)
    THEN /\ TypeOf(y) = TypeOf(x)
         /\ Len(Payload(y)) = Len(Payload(x))
         /\ \A i \in 1..Len(Payload(x)) : Resolves(Payload(x)[i], Payload(y)[i])
    ELSE IF IsFuture(x)
    THEN \E k \in 1..(ReturnAt - 1) :
             /\ seal.ops[k].sym = "wait"
             /\ seal.ops[k].args = <<x>>
             /\ seal.ops[k].out = y
    ELSE y = x

\* the trace ends with one return operation, of the output of the trace
ReturnsOutput ==
    /\ seal.ops # <<>>
    /\ ReturnAt = Len(seal.ops)
    /\ seal.ops[ReturnAt].args = <<seal.output>>

\* C25 as stated: a trace _trace produces with include_return_statement=True
\* does not return an unresolved asynchronous value: every FutureTensorProxy
\* anywhere in the (nested) result of the callable is replaced by the result
\* of its wait() before the return operation is emitted and the output set
C25_SealedTraceReturnsNoFuture ==
    Sealed =>
        /\ ReturnsOutput
        /\ Resolves(seal.fn_result, seal.output)
        /\ ~HasFuture(seal.output)

\* C25 where the trace's flag is set: every future of the result is waited
\* for, wherever it is nested
C25_ResolvedWhenFlagged ==
    (Sealed /\ seal._any_future_tensors) =>
        /\ ReturnsOutput
        /\ Resolves(seal.fn_result, seal.output)
        /\ ~HasFuture(seal.output)

\* a trace made with rename_proxies=False of a callable that returns the
\* FutureTensorProxy it was given: the return operation returns the future
C25_Witness ==
    /\ Sealed
    /\ ~seal.rename_proxies
    /\ seal.arg = F0
    /\ seal.futures = {}
    /\ ~seal._any_future_tensors
    /\ seal.fn_result = F0
    /\ seal.output = F0
    /\ seal.ops = <<BoundSymbol("python_return", <<F0>>, PyNone)>>


(***************************************************************************)
(* C26: what transform_module leaves behind                                *)
(***************************************************************************)
\* the names of the module's parameters and buffers, with their tensors
MatNamed == mat.parameters \o mat.buffers
MatNames == {MatNamed[i][1] : i \in 1..Len(MatNamed)}
TensorOf(n) == CHOOSE o \in Objects(MatNamed) : \E i \in 1..Len(MatNamed) : MatNamed[i] = <<n, o>>

\* the names that share the tensor of n
GroupOf(n) == {m \in MatNames : TensorOf(m) = TensorOf(n)}

\* the name n is overridden with a tensor that was not there before, with
\* the requires_grad its tensor had, on the device its tensor was annotated
\* with before the call or else on the device of the transform
Overridden(n) ==
    /\ n \in DOMAIN mat._overrides_parameters
    /\ LET was == mat.original[TensorOf(n)]
           id == mat._overrides_parameters[n]
       IN  /\ id \notin DOMAIN mat.original
           /\ id \in DOMAIN mat.heap
           /\ mat.heap[id].requires_grad = was.requires_grad
           /\ mat.heap[id].device =
                  IF was._thunder_device # "none" THEN was._thunder_device ELSE mat.device

\* C26: after transform_module returns, every parameter and buffer that was
\* on the meta device is overridden in _overrides_parameters under every
\* name of its shared-name group, all names of a group with one new tensor
\* (the original requires_grad; on the _thunder_device it had, else on the
\* transform's device), different groups with different tensors; a tensor
\* not on the meta device gets no override; init is not invoked before all
\* overrides are installed, and then exactly once
C26_MaterializedOverrides ==
    /\ mat.pc = "done" =>
           /\ \A n \in MatNames :
                  IF mat.original[TensorOf(n)].device = "meta"
                  THEN /\ Overridden(n)
                       /\ \A m \in MatNames :
                              (/\ m \in DOMAIN mat._overrides_parameters
                               /\ mat._overrides_parameters[m] = mat._overrides_parameters[n])
                                  <=> (m \in GroupOf(n))
                  ELSE n \notin DOMAIN mat._overrides_parameters
           /\ DOMAIN mat._overrides_parameters \subseteq MatNames
           /\ mat.inits = 1
           /\ mat.init_saw = mat._overrides_parameters
    /\ mat.pc \notin {"done", "none"} => mat.inits = 0

\* a module whose meta parameter has three names, annotated before the
\* call, next to a parameter that is not on the meta device
C26_Witness ==
    /\ mat.pc = "done"
    /\ mat.inits = 1
    /\ Cardinality(GroupOf("w")) = 3
    /\ mat.original[1] = TensorObj("meta", TRUE, "cuda:1")
    /\ mat.original[2].device = "cpu"
    /\ DOMAIN mat._overrides_parameters = {"w", "v", "s.w"}
    /\ mat.heap[mat._overrides_parameters["s.w"]] = TensorObj("cuda:1", TRUE, "none")


(***************************************************************************)
(* C27: calls from two threads                                             *)
(***************************************************************************)
\* every `cs.calls += 1` that ran is in the counter
NoUpdateLost == cs.calls = conc.increments

\* every call was counted once as a call and once as a hit or a miss
CountersAgree == cs.calls = cs.cache_hits + cs.cache_misses

\* the step leaves the entries the cache holds as they are
NoEntryOverwritten ==
    \A k \in DOMAIN cs.cache : k \in DOMAIN cs'.cache /\ cs'.cache[k] = cs.cache[k]

====
